---- MODULE Spec2Model ----
(***************************************************************************)
(* A model of the census acquisition-and-cache subsystem:                  *)
(*   data_server/acs_loader.py  - retrying fetcher, catalogs, orchestrator, *)
(*                                delta query builder                       *)
(*   data_server/duck_writer.py - key/value cache and schema-evolving store *)
(*   data_server/duck_router.py - one store per geography granularity       *)
(* Each component has its own variable and its own specification; the       *)
(* storage engine is modelled at the granularity of one SQL statement.      *)
(***************************************************************************)
EXTENDS Integers, Sequences, FiniteSets, TLC

VARIABLES
    rj,      \* one _read_json call: position in the retry loop and what it did
    kv,      \* the cache_kv table and the kv_set / kv_get call in progress
    db,      \* the wide tables, one per store file
    wr,      \* the write_row_and_get_query call of each writer
    ld,      \* the loader: fetch_or_cache calls, the remote API and its counters
    dq,      \* the delta query under evaluation
    ls,      \* the listing calls: list_acs_years_for_*, list_counties_for_state
    fv,      \* one fetch_vars call: its batches, requests and merged row
    cc,      \* kv_set / kv_get calls of two connections on one key
    pf,      \* two fetch_or_cache calls with the same arguments at once
    tm       \* fetch_or_cache with its requests carried out by _read_json

vars == <<rj, kv, db, wr, ld, dq, ls, fv, cc, pf, tm>>

\* Python's None and SQL's NULL.
None == "None"

(***************************************************************************)
(* RemoteFetcher: _read_json (acs_loader.py 29-43)                         *)
(***************************************************************************)

RETRY_MAX == 5

\* RETRY_BASE (0.5 s) in milliseconds.
RETRY_BASE == 500

\* Upper end of the jitter, random.random() * 0.2 s, in milliseconds (excluded).
JITTER_MS == 200

\* The jitter values the model draws: both ends of [0, JITTER_MS).
Jitters == {0, JITTER_MS - 1}

\* The statuses after which the except clause lets the loop go on.
RetryableStatus == {429, 500, 502, 503, 504}

\* What one urlopen + read + decode can do.  "OtherError" is any exception the
\* except clause does not name (a read timeout, a JSON decode error).
HttpCodes == {400, 404, 429, 500, 502, 503, 504}

UrlOutcomes ==
    {[kind |-> "ok", code |-> 200]}
    \cup {[kind |-> "HTTPError", code |-> c] : c \in HttpCodes}
    \cup {[kind |-> k, code |-> 0] :
            k \in {"URLError", "RemoteDisconnected", "OtherError"}}

\* except (URLError, RemoteDisconnected, HTTPError)
Caught(o) == o.kind \in {"URLError", "RemoteDisconnected", "HTTPError"}

\* isinstance(e, HTTPError) and e.code not in (429, 500, 502, 503, 504)
FatalStatusRetries404(o) ==
    o.kind = "HTTPError" /\ o.code \notin (RetryableStatus \cup {404})

FatalStatus(o) == o.kind = "HTTPError" /\ o.code \notin RetryableStatus

\* The transient failures of the remote API: a retryable status or a
\* connection failure.
TransientFailure(o) ==
    \/ o.kind = "HTTPError" /\ o.code \in {429, 500, 502, 503, 504}
    \/ o.kind \in {"URLError", "RemoteDisconnected"}

\* The exception object of attempt `at`; NoErr is last_err = None.
Err(o, at) == [kind |-> o.kind, code |-> o.code, at |-> at]

NoErr == [kind |-> "None", code |-> 0, at |-> 0]

\* How a call ended: a returned document (of attempt `at`) or a raised error.
NoResult == [type |-> "none", at |-> 0, err |-> NoErr]

ReturnedFirstAttempt(at) == [type |-> "return", at |-> 1, err |-> NoErr]

Returned(at) == [type |-> "return", at |-> at, err |-> NoErr]

Raised(e) == [type |-> "raise", at |-> e.at, err |-> e]

BackoffLinear(attempt) == RETRY_BASE * attempt

\* RETRY_BASE * (2 ** (attempt - 1)), the deterministic part of the pause.
BackoffMs(attempt) == RETRY_BASE * (2 ^ (attempt - 1))

\* for attempt in range(1, RETRY_MAX + 1): whether another iteration follows.
LoopOffByOne(attempt) == attempt <= RETRY_MAX

LoopContinues(attempt) == attempt < RETRY_MAX

\* raise last_err: which error leaves the loop when it is exhausted.
RaisedFirst(first, last) == first

RaisedAfterRetries(first, last) == last

RJInit ==
    [pc |-> "idle", attempt |-> 0, last_err |-> NoErr, first_err |-> NoErr,
     attempts |-> 0, retryable |-> 0, sleeps |-> <<>>, result |-> NoResult]

\* _read_json(url) is entered: last_err = None, attempt = 1.
RJ_Call ==
    /\ rj.pc \in {"idle", "returned", "raised"}
    /\ rj' = [RJInit EXCEPT !.pc = "try", !.attempt = 1]
    /\ UNCHANGED <<kv, db, wr, ld, dq, ls, fv, cc, pf, tm>>

\* One pass of the try block and its except clause, up to the call of sleep.
\* `retryable` counts the attempts so far that failed with a status of
\* RetryableStatus or a connection failure, whatever the handler made of them.
RJ_Attempt ==
    /\ rj.pc = "try"
    /\ \E o \in UrlOutcomes :
         LET seen == [rj EXCEPT !.attempts = @ + 1,
                                !.retryable = IF TransientFailure(o)
                                              THEN @ + 1 ELSE @]
         IN
         IF o.kind = "ok"
         THEN rj' = [seen EXCEPT !.pc = "returned",
                                 !.result = Returned(rj.attempt)]
         ELSE IF ~Caught(o) \/ FatalStatus(o)
         THEN rj' = [seen EXCEPT !.pc = "raised",
                                 !.result = Raised(Err(o, rj.attempt))]
         ELSE rj' = [seen EXCEPT !.pc = "sleep",
                                 !.last_err = Err(o, rj.attempt),
                                 !.first_err = IF @ = NoErr
                                               THEN Err(o, rj.attempt) ELSE @]
    /\ UNCHANGED <<kv, db, wr, ld, dq, ls, fv, cc, pf, tm>>

\* time.sleep(sleep) returns; the loop takes its next iteration or ends, and
\* an ended loop raises last_err.
RJ_Sleep ==
    /\ rj.pc = "sleep"
    /\ \E j \in Jitters :
         LET slept == Append(rj.sleeps, BackoffMs(rj.attempt) + j) IN
         IF LoopContinues(rj.attempt)
         THEN rj' = [rj EXCEPT !.sleeps = slept, !.attempt = @ + 1, !.pc = "try"]
         ELSE rj' = [rj EXCEPT !.sleeps = slept, !.pc = "raised",
                               !.result = Raised(RaisedAfterRetries(rj.first_err,
                                                                    rj.last_err))]
    /\ UNCHANGED <<kv, db, wr, ld, dq, ls, fv, cc, pf, tm>>

NextRetry == RJ_Call \/ RJ_Attempt \/ RJ_Sleep

(***************************************************************************)
(* WideRowCache: cache_kv, kv_get, kv_set (duck_writer.py 137-169)         *)
(***************************************************************************)

\* Cache keys and JSON texts the model draws its inputs from.
KvKeys == {"row:2023:state:06:DP02", "groupvars:2023:DP02"}

KvValues == {"[]", "{\"NAME\": \"California\"}"}

\* The database file behind DB_PATH as one connection sees it.  `rows` is the
\* committed content of cache_kv, `work` the content the open connection
\* reads and writes; outside a transaction every statement commits at once.
KvFile == [exists |-> FALSE, rows |-> {}, work |-> {}, inTxn |-> FALSE]

\* A statement took effect: it is committed unless a transaction is open.
Executed(f, newWork) ==
    [f EXCEPT !.work = newWork, !.rows = IF f.inTxn THEN @ ELSE newWork]

\* CREATE TABLE IF NOT EXISTS cache_kv (key TEXT PRIMARY KEY, value TEXT, ...)
EnsureKv(f) == IF f.exists THEN f ELSE [f EXCEPT !.exists = TRUE]

\* con.execute("BEGIN")
BeginSkipped(f) == f

Begin(f) == [f EXCEPT !.inTxn = TRUE]

\* DELETE FROM cache_kv WHERE key = ?
SqlDeleteAll(t, key) == {}

SqlDelete(t, key) == {r \in t : r.key # key}

\* The PRIMARY KEY of cache_kv: an INSERT of a key that is present fails.
KeyPresent(t, key) == \E r \in t : r.key = key

\* INSERT INTO cache_kv(key, value) VALUES (?, ?)
SqlInsert(t, key, value) == t \cup {[key |-> key, value |-> value]}

\* con.execute("COMMIT")
Commit(f) == [f EXCEPT !.rows = f.work, !.inTxn = FALSE]

\* con.execute("ROLLBACK") followed by con.close(): the uncommitted work is
\* dropped (with no transaction open ROLLBACK itself raises and drops nothing).
Rollback(f) == [f EXCEPT !.work = f.rows, !.inTxn = FALSE]

\* SELECT value FROM cache_kv WHERE key = ? ... fetchone(); row[0] if row else None
SqlSelectValue(t, key) ==
    IF KeyPresent(t, key) THEN (CHOOSE r \in t : r.key = key).value ELSE None

\* The value of the last kv_set of each key that returned, None before any.
NeverSet == [k \in KvKeys |-> None]

KVInit ==
    [file |-> KvFile, pc |-> "idle", op |-> "none", key |-> None, value |-> None,
     before |-> {}, outcome |-> "none", failedAt |-> "none", got |-> None,
     last |-> NeverSet]

\* except Exception: ROLLBACK; raise; finally: close.
KvRaise == [kv EXCEPT !.file = Rollback(kv.file), !.pc = "idle",
                      !.outcome = "raised", !.failedAt = kv.pc]

\* kv_set(key, value_json) is entered and opens its connection.
KV_SetCall ==
    /\ kv.pc = "idle"
    /\ \E k \in KvKeys, v \in KvValues :
         kv' = [kv EXCEPT !.pc = "ensure", !.op = "set", !.key = k, !.value = v,
                          !.before = kv.file.rows, !.outcome = "none",
                          !.failedAt = "none"]
    /\ UNCHANGED <<rj, db, wr, ld, dq, ls, fv, cc, pf, tm>>

\* _ensure_kv(con)
KV_Ensure ==
    /\ kv.pc = "ensure"
    /\ \E fails \in BOOLEAN :
         kv' = IF fails THEN KvRaise
               ELSE [kv EXCEPT !.file = EnsureKv(@), !.pc = "begin"]
    /\ UNCHANGED <<rj, db, wr, ld, dq, ls, fv, cc, pf, tm>>

KV_Begin ==
    /\ kv.pc = "begin"
    /\ \E fails \in BOOLEAN :
         kv' = IF fails THEN KvRaise
               ELSE [kv EXCEPT !.file = Begin(@), !.pc = "delete"]
    /\ UNCHANGED <<rj, db, wr, ld, dq, ls, fv, cc, pf, tm>>

KV_Delete ==
    /\ kv.pc = "delete"
    /\ \E fails \in BOOLEAN :
         kv' = IF fails THEN KvRaise
               ELSE [kv EXCEPT
                       !.file = Executed(@, SqlDelete(kv.file.work, kv.key)),
                       !.pc = "insert"]
    /\ UNCHANGED <<rj, db, wr, ld, dq, ls, fv, cc, pf, tm>>

KV_Insert ==
    /\ kv.pc = "insert"
    /\ \E fails \in BOOLEAN :
         kv' = IF fails \/ KeyPresent(kv.file.work, kv.key) THEN KvRaise
               ELSE [kv EXCEPT
                       !.file = Executed(@, SqlInsert(kv.file.work, kv.key,
                                                      kv.value)),
                       !.pc = "commit"]
    /\ UNCHANGED <<rj, db, wr, ld, dq, ls, fv, cc, pf, tm>>

\* COMMIT, then the connection is closed and kv_set returns.
KV_Commit ==
    /\ kv.pc = "commit"
    /\ \E fails \in BOOLEAN :
         kv' = IF fails THEN KvRaise
               ELSE [kv EXCEPT !.file = Commit(@), !.pc = "idle",
                               !.outcome = "ok", !.last[kv.key] = kv.value]
    /\ UNCHANGED <<rj, db, wr, ld, dq, ls, fv, cc, pf, tm>>

\* kv_get(key): _ensure_kv, the SELECT and fetchone on a connection of its own.
KV_Get ==
    /\ kv.pc = "idle"
    /\ \E k \in KvKeys, fails \in BOOLEAN :
         kv' = IF fails
               THEN [kv EXCEPT !.op = "get", !.key = k, !.value = None,
                               !.outcome = "raised", !.got = None]
               ELSE [kv EXCEPT !.op = "get", !.key = k, !.value = None,
                               !.file = EnsureKv(@), !.outcome = "ok",
                               !.got = SqlSelectValue(kv.file.rows, k)]
    /\ UNCHANGED <<rj, db, wr, ld, dq, ls, fv, cc, pf, tm>>

NextKV ==
    \/ KV_SetCall \/ KV_Ensure \/ KV_Begin \/ KV_Delete \/ KV_Insert
    \/ KV_Commit \/ KV_Get

(***************************************************************************)
(* kv_set and kv_get on two connections at once (duck_writer.py 147-169).  *)
(* Each connection reads the committed table; inside a transaction it      *)
(* works on its snapshot, and a statement that meets a change of another   *)
(* transaction on the same key fails with a conflict error.                *)
(***************************************************************************)

Clients == {1, 2}

SharedKey == "row:2023:state:06:DP02"

\* The value each connection's kv_set writes.
ValueOf(c) == IF c = 1 THEN "[]" ELSE "{\"NAME\": \"California\"}"

MaxKvCalls == 2

ClientIdle ==
    [pc |-> "idle", op |-> "none", work |-> {}, snap |-> {}, inTxn |-> FALSE,
     outcome |-> "none", got |-> "None", had |-> FALSE, calls |-> 0]

\* rows: the committed cache_kv; ok: the values of the sets that returned;
\* ever: whether a value was ever committed for the key.
CCInit == [rows |-> {}, cl |-> [c \in Clients |-> ClientIdle], ok |-> {},
           ever |-> FALSE]

\* The file as connection c sees it.
FileOf(c) ==
    [exists |-> TRUE, rows |-> cc.rows,
     work |-> IF cc.cl[c].inTxn THEN cc.cl[c].work ELSE cc.rows,
     inTxn |-> cc.cl[c].inTxn]

\* The entries a transaction (work, snap) has removed or added.
Changes(txn) == (txn.snap \ txn.work) \cup (txn.work \ txn.snap)

\* The entries for `key` that another open transaction has removed or added.
TouchedByOther(others, key) ==
    {r \in UNION {Changes(o) : o \in {x \in others : x.inTxn}} : r.key = key}

\* The entries for `key` committed or removed since the transaction's snapshot.
ChangedSinceSnapshot(rows, me, key) ==
    IF me.inTxn
    THEN {r \in (rows \ me.snap) \cup (me.snap \ rows) : r.key = key}
    ELSE {}

NoTxnConflict(rows, me, others, key) == FALSE

\* A statement of `me` on `key` meets a change of another transaction.
TxnConflict(rows, me, others, key) ==
    TouchedByOther(others, key) \cup ChangedSinceSnapshot(rows, me, key) # {}

Conflict(c, key) ==
    TxnConflict(cc.rows, cc.cl[c], {cc.cl[o] : o \in Clients \ {c}}, key)

\* The state after a statement of connection c left the file as f.
After(c, f, pc) ==
    [cc EXCEPT !.rows = f.rows,
               !.ever = @ \/ KeyPresent(f.rows, SharedKey),
               !.cl[c].work = f.work, !.cl[c].inTxn = f.inTxn, !.cl[c].pc = pc]

\* except Exception: ROLLBACK; raise.
CcRaise(c) ==
    LET f == Rollback(FileOf(c)) IN
    [After(c, f, "idle") EXCEPT !.cl[c].outcome = "raised"]

CC_SetCall(c) ==
    /\ cc.cl[c].pc = "idle"
    /\ cc.cl[c].calls < MaxKvCalls
    /\ cc' = [cc EXCEPT !.cl[c] = [ClientIdle EXCEPT !.pc = "begin", !.op = "set",
                                                     !.calls = cc.cl[c].calls + 1]]
    /\ UNCHANGED <<rj, kv, db, wr, ld, dq, ls, fv, pf, tm>>

CC_Begin(c) ==
    /\ cc.cl[c].pc = "begin"
    /\ \E fails \in BOOLEAN :
         cc' = IF fails THEN CcRaise(c)
               ELSE LET f == Begin(FileOf(c)) IN
                    [After(c, f, "delete") EXCEPT !.cl[c].snap = cc.rows]
    /\ UNCHANGED <<rj, kv, db, wr, ld, dq, ls, fv, pf, tm>>

CC_Delete(c) ==
    /\ cc.cl[c].pc = "delete"
    /\ \E fails \in BOOLEAN :
         cc' = IF fails \/ Conflict(c, SharedKey) THEN CcRaise(c)
               ELSE LET f == FileOf(c) IN
                    After(c, Executed(f, SqlDelete(f.work, SharedKey)), "insert")
    /\ UNCHANGED <<rj, kv, db, wr, ld, dq, ls, fv, pf, tm>>

CC_Insert(c) ==
    /\ cc.cl[c].pc = "insert"
    /\ \E fails \in BOOLEAN :
         LET f == FileOf(c) IN
         cc' = IF fails \/ Conflict(c, SharedKey) \/ KeyPresent(f.work, SharedKey)
               THEN CcRaise(c)
               ELSE After(c, Executed(f, SqlInsert(f.work, SharedKey, ValueOf(c))),
                          "commit")
    /\ UNCHANGED <<rj, kv, db, wr, ld, dq, ls, fv, pf, tm>>

CC_Commit(c) ==
    /\ cc.cl[c].pc = "commit"
    /\ \E fails \in BOOLEAN :
         cc' = IF fails THEN CcRaise(c)
               ELSE [After(c, Commit(FileOf(c)), "idle") EXCEPT
                        !.cl[c].outcome = "ok", !.ok = @ \cup {ValueOf(c)}]
    /\ UNCHANGED <<rj, kv, db, wr, ld, dq, ls, fv, pf, tm>>

\* kv_get is entered.
CC_GetCall(c) ==
    /\ cc.cl[c].pc = "idle"
    /\ cc.cl[c].calls < MaxKvCalls
    /\ cc' = [cc EXCEPT !.cl[c] = [ClientIdle EXCEPT !.pc = "select", !.op = "get",
                                                     !.had = cc.ever,
                                                     !.calls = cc.cl[c].calls + 1]]
    /\ UNCHANGED <<rj, kv, db, wr, ld, dq, ls, fv, pf, tm>>

\* SELECT value FROM cache_kv WHERE key = ?, on the committed table.
CC_Select(c) ==
    /\ cc.cl[c].pc = "select"
    /\ \E fails \in BOOLEAN :
         cc' = IF fails THEN CcRaise(c)
               ELSE [cc EXCEPT !.cl[c].pc = "idle", !.cl[c].outcome = "ok",
                               !.cl[c].got = SqlSelectValue(cc.rows, SharedKey)]
    /\ UNCHANGED <<rj, kv, db, wr, ld, dq, ls, fv, pf, tm>>

NextShared ==
    \E c \in Clients :
        \/ CC_SetCall(c) \/ CC_Begin(c) \/ CC_Delete(c) \/ CC_Insert(c)
        \/ CC_Commit(c) \/ CC_GetCall(c) \/ CC_Select(c)

(***************************************************************************)
(* SchemaEvolvingStore: _ensure_table, write_row_and_get_query             *)
(* (duck_writer.py 22-134) and the store files of duck_router.py           *)
(***************************************************************************)

\* A Python dict: a sequence of <<key, value>> pairs in insertion order.
DictKeys(d) == {d[i][1] : i \in 1..Len(d)}

HasKey(d, k) == \E i \in 1..Len(d) : d[i][1] = k

\* d.get(k): None when the key is absent.
DictGet(d, k) ==
    IF HasKey(d, k) THEN d[CHOOSE i \in 1..Len(d) : d[i][1] = k][2] ELSE None

\* d[k] = v: an existing key keeps its place, a new key goes last.
DictSet(d, k, v) ==
    IF HasKey(d, k)
    THEN [i \in 1..Len(d) |-> IF d[i][1] = k THEN <<k, v>> ELSE d[i]]
    ELSE Append(d, <<k, v>>)

\* str.zfill(width)
RECURSIVE Zfill(_, _)
Zfill(str, width) == IF Len(str) >= width THEN str ELSE Zfill("0" \o str, width)

\* str.lower() on the geo_level spellings callers use.
Lower(str) ==
    CASE str = "State" -> "state"
      [] str = "COUNTY" -> "county"
      [] OTHER -> str

\* Python truthiness of an optional string: `not x`.
Falsy(x) == x = None \/ x = ""

CoreCols == <<"geo_level", "year", "state", "county", "NAME">>

SeqRange(q) == {q[i] : i \in 1..Len(q)}

\* state_db_path() and county_db_path(state_fips): the store file of a write.
StateStore == "acs_states"

\* DB_PATH of api.py and duck_writer.py: the file _conn() opens, which holds
\* cache_kv.
CacheStore == "acs_cache"

CountyStoreUnpadded(state_fips) == "acs_counties_" \o state_fips

CountyStore(state_fips) == "acs_counties_" \o Zfill(state_fips, 2)

\* A table of a store file: its columns in table_info order, its records
\* (each a function column -> value, NULL where nothing was stored) and, for
\* each record, the dict it was inserted from.
NoTable == [exists |-> FALSE, cols |-> <<>>, rows |-> <<>>, src |-> <<>>]

\* CREATE TABLE IF NOT EXISTS {table} (geo_level, year, state, county, NAME)
SqlCreateOrReplace(t) ==
    [exists |-> TRUE, cols |-> CoreCols, rows |-> <<>>, src |-> <<>>]

SqlCreateIfNotExists(t) ==
    IF t.exists THEN t
    ELSE [exists |-> TRUE, cols |-> CoreCols, rows |-> <<>>, src |-> <<>>]

\* PRAGMA table_info: existing_cols = {row[1] for row in info}
TableInfo(t) == SeqRange(t.cols)

\* ALTER TABLE {table} ADD COLUMN "{col}" TEXT on a table without that column:
\* the records already stored read NULL in it.
SqlAddColumnDefaultEmpty(t, col) ==
    [t EXCEPT !.cols = Append(@, col),
              !.rows = [i \in 1..Len(t.rows) |->
                          [c \in SeqRange(t.cols) \cup {col} |->
                              IF c = col THEN "" ELSE t.rows[i][c]]]]

SqlAddColumn(t, col) ==
    [t EXCEPT !.cols = Append(@, col),
              !.rows = [i \in 1..Len(t.rows) |->
                          [c \in SeqRange(t.cols) \cup {col} |->
                              IF c = col THEN None ELSE t.rows[i][c]]]]

\* INSERT INTO {table} ({collist}) VALUES (...): one record, NULL in every
\* column the list does not name.
SqlUpsertRow(t, row) ==
    LET rec == [c \in SeqRange(t.cols) |-> DictGet(row, c)]
        same(i) == /\ t.rows[i]["geo_level"] = rec["geo_level"]
                   /\ t.rows[i]["year"] = rec["year"]
                   /\ t.rows[i]["state"] = rec["state"]
                   /\ t.rows[i]["county"] = rec["county"]
    IN  IF \E i \in 1..Len(t.rows) : same(i)
        THEN [t EXCEPT
                !.rows = [i \in 1..Len(t.rows) |-> IF same(i) THEN rec ELSE t.rows[i]],
                !.src = [i \in 1..Len(t.rows) |-> IF same(i) THEN row ELSE t.src[i]]]
        ELSE [t EXCEPT !.rows = Append(@, rec), !.src = Append(@, row)]

SqlInsertRow(t, row) ==
    [t EXCEPT !.rows = Append(@, [c \in SeqRange(t.cols) |-> DictGet(row, c)]),
              !.src = Append(@, row)]

\* The except clause of _ensure_table: "already exists" in str(e).
ToleratesAll(msg) == TRUE

NotTolerated(msg) == FALSE

Tolerated(msg) == msg = "already exists"

\* STATE_TABLE_NAME, COUNTY_TABLE_NAME: the table a store file holds.
TableOf(store) ==
    IF store = StateStore THEN "acs5_state_profile" ELSE "acs5_county_profile"

\* The first key of the row, from position i on, that the loop of
\* _ensure_table has to add; Len(row) + 1 when there is none.
RECURSIVE NextMissing(_, _, _)
NextMissing(row, i, existing) ==
    IF i > Len(row) THEN i
    ELSE IF row[i][1] \in SeqRange(CoreCols) \/ row[i][1] \in existing
         THEN NextMissing(row, i + 1, existing)
         ELSE i

\* Lines 77-87: the copy of the row with its identifier fields filled in.
Normalized(row, year, geo_level, state_fips, county_fips) ==
    LET r1 == DictSet(row, "geo_level", Lower(geo_level))
        r2 == DictSet(r1, "year", year)
        r3 == IF state_fips # None
              THEN DictSet(r2, "state", Zfill(state_fips, 2)) ELSE r2
    IN  IF county_fips # None
        THEN DictSet(r3, "county", Zfill(county_fips, 3)) ELSE r3

\* Lines 116-130: the SELECT, as the store it reads and the conjuncts
\* column = literal of its WHERE clause.
NoQuery == [store |-> "", where |-> <<>>]

PointQuery(store, row, geo_level, year) ==
    LET state_val == DictGet(row, "state")
        county_val == DictGet(row, "county")
    IN  [store |-> store,
         where |-> <<<<"geo_level", geo_level>>, <<"year", year>>>>
                   \o (IF state_val # None THEN <<<<"state", state_val>>>> ELSE <<>>)
                   \o (IF county_val # None THEN <<<<"county", county_val>>>> ELSE <<>>)]

\* The records a query returns, by position: a NULL satisfies no comparison.
Matches(rec, where) ==
    \A j \in 1..Len(where) :
        /\ where[j][1] \in DOMAIN rec
        /\ IF where[j][1] = "year" THEN rec["year"] = where[j][2]
           ELSE rec[where[j][1]] # None /\ rec[where[j][1]] = where[j][2]

RunQuery(t, q) == {i \in 1..Len(t.rows) : Matches(t.rows[i], q.where)}

\* The callers' arguments the model draws from.
Writers == {1, 2}

\* The value of a variable is the text the API sent, kept as its characters.
RowInputs ==
    { <<<<"NAME", "California">>, <<"DP02_0001E", <<"1", "0">>>>>>,
      <<<<"NAME", "California">>, <<"DP02_0001E", <<"1", "2">>>>,
        <<"DP03_0001E", <<"5">>>>>>,
      <<<<"NAME", "Orange County">>, <<"DP02_0001E", <<"1", "0">>>>,
        <<"state", "06">>, <<"county", "059">>>> }

YearInputs == {2018, 2023}

GeoInputs == {"state", "State", "county", "tract"}

StateInputs == {None, "6", "48"}

CountyInputs == {None, "59"}

\* How many calls the one writer of SpecStore makes, and each writer of SpecRace.
MaxWrites == 2

MaxRaceWrites == 1

\* Every store file a call can open.
Stores ==
    {StateStore, CacheStore}
    \cup {CountyStore(st) : st \in StateInputs \ {None}}
    \cup {CountyStoreUnpadded(st) : st \in StateInputs \ {None}}

WrIdle ==
    [pc |-> "idle", row |-> <<>>, year |-> 0, geo_level |-> "",
     state_fips |-> None, county_fips |-> None, store |-> "",
     existing |-> {}, i |-> 0, outcome |-> "none", error |-> "",
     query |-> NoQuery, pos |-> 0, raced |-> FALSE, calls |-> 0,
     inserted |-> 0]

DBInit == [st \in Stores |-> NoTable]

WRInit == [w \in Writers |-> WrIdle]

\* The call ends by raising `msg`; the finally clause closes the connection.
WrRaise(w, msg) ==
    wr' = [wr EXCEPT ![w].pc = "idle", ![w].outcome = "raised", ![w].error = msg]

\* Lines 89-99: the store of a call, NoStore where a ValueError is raised.
NoStore == ""

StoreChoiceDefaultState(gl, state_fips) ==
    IF gl = "county" /\ ~Falsy(state_fips) THEN CountyStore(state_fips)
    ELSE IF gl = "county" THEN NoStore
    ELSE StateStore

StoreChoice(gl, state_fips) ==
    IF gl = "state" THEN StateStore
    ELSE IF gl = "county"
    THEN (IF Falsy(state_fips) THEN NoStore ELSE CountyStore(state_fips))
    ELSE NoStore

\* Lines 77-99: normalize, copy the row, pick the store or reject the call.
W_Call(w, row, year, geo_level, state_fips, county_fips, limit) ==
    /\ wr[w].pc = "idle"
    /\ wr[w].calls < limit
    /\ LET gl == Lower(geo_level)
           begun == [WrIdle EXCEPT
                       !.row = Normalized(row, year, geo_level, state_fips,
                                          county_fips),
                       !.year = year, !.geo_level = gl,
                       !.state_fips = state_fips, !.county_fips = county_fips,
                       !.calls = wr[w].calls + 1,
                       !.inserted = wr[w].inserted]
           store == StoreChoice(gl, state_fips)
       IN  IF store # NoStore
           THEN wr' = [wr EXCEPT ![w] = [begun EXCEPT !.pc = "create",
                                                      !.store = store]]
           ELSE wr' = [wr EXCEPT ![w] = [begun EXCEPT !.outcome = "raised",
                                                      !.error = "ValueError"]]
    /\ UNCHANGED <<rj, kv, db, ld, dq, ls, fv, cc, pf, tm>>

\* _ensure_table, lines 28-36.
W_Create(w) ==
    /\ wr[w].pc = "create"
    /\ db' = [db EXCEPT ![wr[w].store] = SqlCreateIfNotExists(@)]
    /\ wr' = [wr EXCEPT ![w].pc = "info"]
    /\ UNCHANGED <<rj, kv, ld, dq, ls, fv, cc, pf, tm>>

\* _ensure_table, lines 41-49: read the column set, skip to the first column
\* the row needs and the table lacks.
W_Info(w) ==
    /\ wr[w].pc = "info"
    /\ LET existing == TableInfo(db[wr[w].store])
           i == NextMissing(wr[w].row, 1, existing)
       IN  wr' = [wr EXCEPT ![w].existing = existing, ![w].i = i,
                            ![w].pc = IF i > Len(wr[w].row) THEN "insert"
                                      ELSE "alter"]
    /\ UNCHANGED <<rj, kv, db, ld, dq, ls, fv, cc, pf, tm>>

\* _ensure_table, lines 51-60: one ALTER TABLE and its except clause, then on
\* to the next missing column.  `faults` says whether the statement may fail
\* with a storage error of its own.
W_Alter(w, faults) ==
    /\ wr[w].pc = "alter"
    /\ \E fault \in faults :
         LET t == db[wr[w].store]
             col == wr[w].row[wr[w].i][1]
             msg == IF fault THEN "IO Error"
                    ELSE IF col \in SeqRange(t.cols) THEN "already exists"
                    ELSE ""
             existing == wr[w].existing \cup {col}
             i == NextMissing(wr[w].row, wr[w].i + 1, existing)
         IN  /\ db' = IF msg = "" THEN [db EXCEPT ![wr[w].store] = SqlAddColumn(t, col)]
                      ELSE db
             /\ IF msg = "" \/ Tolerated(msg)
                THEN wr' = [wr EXCEPT ![w].existing = existing, ![w].i = i,
                                      ![w].raced = @ \/ msg # "",
                                      ![w].pc = IF i > Len(wr[w].row)
                                                THEN "insert" ELSE "alter"]
                ELSE WrRaise(w, msg)
    /\ UNCHANGED <<rj, kv, ld, dq, ls, fv, cc, pf, tm>>

\* Lines 105-134: the INSERT, the SELECT text, the return.
W_Insert(w) ==
    /\ wr[w].pc = "insert"
    /\ LET t == db[wr[w].store] IN
         IF DictKeys(wr[w].row) \subseteq SeqRange(t.cols)
         THEN /\ db' = [db EXCEPT ![wr[w].store] = SqlInsertRow(t, wr[w].row)]
              /\ wr' = [wr EXCEPT
                          ![w].pc = "idle", ![w].outcome = "ok",
                          ![w].pos = Len(t.rows) + 1,
                          ![w].inserted = @ + 1,
                          ![w].query = PointQuery(wr[w].store, wr[w].row,
                                                  wr[w].geo_level, wr[w].year)]
         ELSE /\ db' = db
              /\ WrRaise(w, "Binder Error")
    /\ UNCHANGED <<rj, kv, ld, dq, ls, fv, cc, pf, tm>>

\* One caller at a time, any arguments, ALTER TABLE may fail.
StoreCall ==
    \E row \in RowInputs, year \in YearInputs, geo_level \in GeoInputs,
       state_fips \in StateInputs, county_fips \in CountyInputs :
        W_Call(1, row, year, geo_level, state_fips, county_fips, MaxWrites)

StoreCreate == W_Create(1)

StoreInfo == W_Info(1)

StoreAlter == W_Alter(1, BOOLEAN)

StoreInsert == W_Insert(1)

NextStore == StoreCall \/ StoreCreate \/ StoreInfo \/ StoreAlter \/ StoreInsert

\* Two callers at once writing state rows of one state, no storage faults.
RaceRows == {row \in RowInputs : DictKeys(row) = {"NAME", "DP02_0001E"}
                                   \/ Len(row) = 3}

RaceCall ==
    \E w \in Writers, row \in RaceRows, year \in YearInputs :
        W_Call(w, row, year, "state", "6", None, MaxRaceWrites)

RaceCreate == \E w \in Writers : W_Create(w)

RaceInfo == \E w \in Writers : W_Info(w)

RaceAlter == \E w \in Writers : W_Alter(w, {FALSE})

RaceInsert == \E w \in Writers : W_Insert(w)

NextRace == RaceCall \/ RaceCreate \/ RaceInfo \/ RaceAlter \/ RaceInsert

(***************************************************************************)
(* DeltaQueryBuilder: build_delta_sql (acs_loader.py 184-241) and the       *)
(* evaluation of the query it builds                                        *)
(***************************************************************************)

\* Code-point order of the names the model uses, for list.sort() and sorted().
LexOrder ==
    <<"DP02_0001E", "DP02_0002E", "DP03_0001E", "NAME", "county", "geo_level",
      "state", "year">>

LexRank(name) == CHOOSE i \in 1..Len(LexOrder) : LexOrder[i] = name

RECURSIVE InsertSorted(_, _)
InsertSorted(sorted, x) ==
    IF sorted = <<>> THEN <<x>>
    ELSE IF LexRank(x) < LexRank(Head(sorted)) THEN <<x>> \o sorted
    ELSE <<Head(sorted)>> \o InsertSorted(Tail(sorted), x)

RECURSIVE SortNames(_)
SortNames(names) ==
    IF names = <<>> THEN <<>>
    ELSE InsertSorted(SortNames(Tail(names)), Head(names))

\* str.startswith(prefix) on the names of the model: prefix + some tail.
CodeTails == {"02_0001E", "02_0002E", "03_0001E", "0001E", "0002E"}

StartsWith(name, prefix) == \E tail \in CodeTails : name = prefix \o tail

IsTracked(name) == StartsWith(name, "DP")

\* try_cast(x AS DOUBLE): the number a text spells, NULL for NULL and for a
\* text that spells none.  Numbers carry a null flag.
NullNum == [null |-> TRUE, val |-> 0]

Num(n) == [null |-> FALSE, val |-> n]

DigitVal(ch) ==
    CASE ch = "0" -> 0 [] ch = "1" -> 1 [] ch = "2" -> 2 [] ch = "3" -> 3
      [] ch = "4" -> 4 [] ch = "5" -> 5 [] ch = "6" -> 6 [] ch = "7" -> 7
      [] ch = "8" -> 8 [] ch = "9" -> 9

IsDigits(txt) ==
    /\ Len(txt) >= 1
    /\ \A i \in 1..Len(txt) :
          txt[i] \in {"0", "1", "2", "3", "4", "5", "6", "7", "8", "9"}

RECURSIVE DigitsValue(_)
DigitsValue(txt) ==
    IF txt = <<>> THEN 0
    ELSE 10 * DigitsValue(SubSeq(txt, 1, Len(txt) - 1)) + DigitVal(txt[Len(txt)])

CastZeroOnFailure(x) ==
    IF x = None THEN NullNum
    ELSE IF IsDigits(x) THEN Num(DigitsValue(x))
    ELSE IF Len(x) >= 2 /\ x[1] = "-" /\ IsDigits(Tail(x))
         THEN Num(0 - DigitsValue(Tail(x)))
    ELSE Num(0)

TryCastDouble(x) ==
    IF x = None THEN NullNum
    ELSE IF IsDigits(x) THEN Num(DigitsValue(x))
    ELSE IF Len(x) >= 2 /\ x[1] = "-" /\ IsDigits(Tail(x))
         THEN Num(0 - DigitsValue(Tail(x)))
    ELSE NullNum

\* try_cast(b."c" AS DOUBLE) - try_cast(a."c" AS DOUBLE)
DeltaExpr(bval, aval) ==
    LET x == TryCastDouble(bval)
        y == TryCastDouble(aval)
    IN  IF x.null \/ y.null THEN NullNum ELSE Num(x.val - y.val)

\* SQL comparison and coalesce(x, '').
SqlEq(x, y) == x # None /\ y # None /\ x = y

Coalesce(x) == IF x = None THEN "" ELSE x

\* The query text as the parts that decide its result: the table, the sorted
\* tracked columns and the conjuncts of the WHERE clause.
NoDelta == [table |-> "", dp_cols |-> <<>>, where |-> <<>>, select |-> <<>>]

\* select_id, each reference column by its alias.
SelectId == <<"geo_level", "state", "county", "year_a", "year_b", "NAME_a", "NAME_b">>

\* The alias of the delta expression of column c.
DeltaAlias(c) == c \o "__delta"

\* ", ".join(items) as the sequence of the items and the commas between them.
RECURSIVE CommaJoin(_)
CommaJoin(items) ==
    IF Len(items) = 0 THEN <<>>
    ELSE IF Len(items) = 1 THEN <<items[1]>>
    ELSE <<items[1], ",">> \o CommaJoin(Tail(items))

\* SELECT {", ".join(select_id)} , {", ".join(delta_exprs)}
SelectList(dp_cols) ==
    CommaJoin(SelectId) \o <<",">>
    \o CommaJoin([k \in 1..Len(dp_cols) |-> DeltaAlias(dp_cols[k])])

FilterTracked(cols) == SelectSeq(cols, IsTracked)

BuildDeltaSql(year_a, year_b, geo_level, state_fips, county_fips, all_columns, table) ==
    [table |-> table,
     dp_cols |-> SortNames(FilterTracked(all_columns)),
     select |-> SelectList(SortNames(FilterTracked(all_columns))),
     where |-> <<<<"a", "geo_level", geo_level>>, <<"a", "state", state_fips>>>>
               \o (IF geo_level = "state" THEN <<>>
                   ELSE <<<<"a", "county", county_fips>>>>)
               \o <<<<"a", "year", year_a>>, <<"b", "year", year_b>>>>]

JoinOnLevelOnly(a, b) == SqlEq(a["geo_level"], b["geo_level"])

\* ON a.geo_level=b.geo_level AND a.state=b.state
\*    AND coalesce(a.county,'')=coalesce(b.county,'')
JoinOn(a, b) ==
    /\ SqlEq(a["geo_level"], b["geo_level"])
    /\ SqlEq(a["state"], b["state"])
    /\ Coalesce(a["county"]) = Coalesce(b["county"])

WhereGeo(a, b, where) ==
    \A k \in 1..Len(where) :
        LET rec == IF where[k][1] = "a" THEN a ELSE b IN
        IF where[k][2] = "year" THEN rec["year"] = where[k][3]
        ELSE SqlEq(rec[where[k][2]], where[k][3])

\* The query runs on a connection to `store`: it is valid when that file holds
\* the table it names and the table has every column it selects.
DeltaValid(store, q) ==
    /\ db[store].exists
    /\ TableOf(store) = q.table
    /\ SeqRange(q.dp_cols) \subseteq SeqRange(db[store].cols)

\* The result rows, each with the positions of the two records it pairs.
DeltaRows(store, q) ==
    LET t == db[store] IN
    { [a |-> i, b |-> j,
       year_a |-> t.rows[i]["year"], year_b |-> t.rows[j]["year"],
       delta |-> [c \in SeqRange(q.dp_cols) |->
                     DeltaExpr(t.rows[j][c], t.rows[i][c])]] :
        <<i, j>> \in { p \in (1..Len(t.rows)) \X (1..Len(t.rows)) :
                        /\ JoinOn(t.rows[p[1]], t.rows[p[2]])
                        /\ WhereGeo(t.rows[p[1]], t.rows[p[2]], q.where) } }

\* The arguments of a delta request before any was made.
NoRequest == <<0, 0, "", "", None>>

DQInit ==
    [ran |-> FALSE, ok |-> FALSE, store |-> "", query |-> NoDelta, rows |-> {},
     req |-> NoRequest]

\* The snapshots' rows the delta specification persists.
Dp02Cells ==
    { <<>>, <<<<"DP02_0001E", <<"1", "0">>>>>>, <<<<"DP02_0001E", <<"1", "2">>>>>>,
      <<<<"DP02_0001E", <<"N">>>>>> }

Dp03Cells ==
    { <<>>, <<<<"DP03_0001E", <<"5">>>>>>, <<<<"DP03_0001E", <<"-", "6">>>>>>,
      <<<<"DP03_0001E", <<>>>>>> }

SnapshotRows ==
    { <<<<"NAME", "California">>>> \o x \o y : x \in Dp02Cells, y \in Dp03Cells }

MaxSnapshots == 2

Reverse(q) == [i \in 1..Len(q) |-> q[Len(q) + 1 - i]]

\* build_delta_sql for a geography and the execution of its query on `store`.
DQ_RunGeo(store, table, geo_level, state_fips, county_fips) ==
    /\ ~dq.ran
    /\ \A w \in Writers : wr[w].pc = "idle"
    /\ db[store].exists
    /\ \E year_a \in YearInputs, year_b \in YearInputs,
          all_columns \in {db[store].cols, Reverse(db[store].cols)} :
         LET q == BuildDeltaSql(year_a, year_b, geo_level, state_fips,
                                county_fips, all_columns, table)
             req == <<year_a, year_b, geo_level, state_fips, county_fips>>
         IN  dq' = IF DeltaValid(store, q)
                   THEN [ran |-> TRUE, ok |-> TRUE, store |-> store,
                         query |-> q, rows |-> DeltaRows(store, q), req |-> req]
                   ELSE [ran |-> TRUE, ok |-> FALSE, store |-> store,
                         query |-> q, rows |-> {}, req |-> req]
    /\ UNCHANGED <<rj, kv, db, wr, ld, ls, fv, cc, pf, tm>>

\* The delta of state 06.
DQ_Run(store, table) == DQ_RunGeo(store, table, "state", "06", None)

\* Snapshots of state 06 are persisted, then the delta query is run on the
\* table that holds them.
DeltaCall ==
    /\ ~dq.ran
    /\ \E row \in SnapshotRows, year \in YearInputs :
         W_Call(1, row, year, "state", "6", None, MaxSnapshots)

DeltaCreate == W_Create(1)

DeltaInfo == W_Info(1)

DeltaAlter == W_Alter(1, {FALSE})

DeltaInsert == W_Insert(1)

DeltaRun == DQ_Run(StateStore, TableOf(StateStore))

NextDelta ==
    \/ DeltaCall \/ DeltaCreate \/ DeltaInfo \/ DeltaAlter \/ DeltaInsert
    \/ DeltaRun

\* The geographies whose snapshots are persisted together: two states, and
\* two counties of one state.
PairGeos ==
    { <<"state", "06", None>>, <<"state", "48", None>>,
      <<"county", "06", "059">>, <<"county", "06", "001">> }

PairRows ==
    { <<<<"NAME", "Orange">>, <<"DP02_0001E", <<"1", "0">>>>>>,
      <<<<"NAME", "Orange">>, <<"DP02_0001E", <<"1", "0">>>>, <<"county", "059">>>> }

MaxPairWrites == 3

PairCall ==
    /\ ~dq.ran
    /\ \E row \in PairRows, year \in YearInputs, g \in PairGeos :
         W_Call(1, row, year, g[1], g[2], g[3], MaxPairWrites)

PairCreate == W_Create(1)

PairInfo == W_Info(1)

PairAlter == W_Alter(1, {FALSE})

PairInsert == W_Insert(1)

\* delta_state for state 06 or delta_county for county 06/059, on the table
\* the snapshots of that level were written to.
PairRun ==
    \E g \in { <<"state", "06", None>>, <<"county", "06", "059">> } :
        DQ_RunGeo(StoreChoice(g[1], g[2]), TableOf(StoreChoice(g[1], g[2])),
                  g[1], g[2], g[3])

NextPairing ==
    \/ PairCall \/ PairCreate \/ PairInfo \/ PairAlter \/ PairInsert
    \/ PairRun

\* The `table` default of build_delta_sql, which delta_state does not override.
DefaultDeltaTable == "acs5_profile"

\* The snapshots of state 06 persisted so far, by year.
Persisted(year) ==
    {i \in 1..Len(db[StateStore].rows) :
        /\ db[StateStore].rows[i]["year"] = year
        /\ db[StateStore].rows[i]["state"] = "06"}

\* sorted(set(row_a.keys()) | set(row_b.keys()))
RECURSIVE SetToSortedSeq(_)
SetToSortedSeq(names) ==
    IF names = {} THEN <<>>
    ELSE LET x == CHOOSE n \in names : TRUE
         IN  InsertSorted(SetToSortedSeq(names \ {x}), x)

\* delta_state after its two writes (api.py 281-300): build_delta_sql with the
\* keys of both rows and the default table, executed on _conn().  api.py
\* calls write_row_and_get_query without importing it; the flow is taken with
\* the name bound to the function of duck_writer.py.
ApiDeltaRun ==
    /\ ~dq.ran
    /\ \A w \in Writers : wr[w].pc = "idle"
    /\ \E year_a \in YearInputs, year_b \in YearInputs :
         /\ year_a # year_b
         /\ Persisted(year_a) # {} /\ Persisted(year_b) # {}
         /\ \E i \in Persisted(year_a), j \in Persisted(year_b) :
              LET all_cols == SetToSortedSeq(DictKeys(db[StateStore].src[i])
                                             \cup DictKeys(db[StateStore].src[j]))
                  q == BuildDeltaSql(year_a, year_b, "state", "06", None,
                                     all_cols, DefaultDeltaTable)
                  req == <<year_a, year_b, "state", "06", None>>
              IN  dq' = IF DeltaValid(CacheStore, q)
                        THEN [ran |-> TRUE, ok |-> TRUE, store |-> CacheStore,
                              query |-> q, rows |-> DeltaRows(CacheStore, q),
                              req |-> req]
                        ELSE [ran |-> TRUE, ok |-> FALSE, store |-> CacheStore,
                              query |-> q, rows |-> {}, req |-> req]
    /\ UNCHANGED <<rj, kv, db, wr, ld, ls, fv, cc, pf, tm>>

NextApiDelta ==
    \/ DeltaCall \/ DeltaCreate \/ DeltaInfo \/ DeltaAlter \/ DeltaInsert
    \/ ApiDeltaRun

(***************************************************************************)
(* CensusLoader: _kv_load_json, _kv_save_json, get_group_variables,        *)
(* discover_all_vars, fetch_vars, _row_cache_key, fetch_or_cache           *)
(* (acs_loader.py 20-25, 50-71, 162-181, 252-280)                          *)
(***************************************************************************)

BATCH_SIZE == 45

\* json.dumps / json.loads on the values the loader stores: a list of names
\* and a dict from names to strings or None.  A JSON text is its sequence of
\* tokens; a string token carries its characters, null is a token of its own.
JsonStr(s) == <<"str", s>>

JsonVal(v) == IF v = None THEN <<"null">> ELSE JsonStr(v)

RECURSIVE JsonMembers(_)
JsonMembers(d) ==
    IF d = <<>> THEN <<>>
    ELSE <<JsonStr(d[1][1]), JsonVal(d[1][2])>> \o JsonMembers(Tail(d))

DumpsDict(d) == <<"{">> \o JsonMembers(d) \o <<"}">>

DumpsList(l) == <<"[">> \o [k \in 1..Len(l) |-> JsonStr(l[k])] \o <<"]">>

FromJson(tok) == IF tok[1] = "null" THEN None ELSE tok[2]

Loads(text) ==
    IF text[1] = "{"
    THEN [k \in 1..((Len(text) - 2) \div 2) |->
            <<FromJson(text[2 * k]), FromJson(text[2 * k + 1])>>]
    ELSE [k \in 1..(Len(text) - 2) |-> FromJson(text[k + 1])]

\* kv_get and kv_set as one call each, built from their statements.
KvGet(f, key) == SqlSelectValue(EnsureKv(f).rows, key)

KvSet(f, key, value_json) ==
    LET f1 == Begin(EnsureKv(f))
        f2 == Executed(f1, SqlDelete(f1.work, key))
        f3 == Executed(f2, SqlInsert(f2.work, key, value_json))
    IN  Commit(f3)

\* What _kv_load_json returns: None, or the object a JSON text spells.
NoObject == [some |-> FALSE, val |-> <<>>]

Object(val) == [some |-> TRUE, val |-> val]

\* _kv_load_json(key)
KvLoadJson(f, key) ==
    LET s == KvGet(f, key) IN IF s = None THEN NoObject ELSE Object(Loads(s))

RECURSIVE Join(_, _)
Join(parts, sep) ==
    IF parts = <<>> THEN ""
    ELSE IF Len(parts) = 1 THEN parts[1]
    ELSE parts[1] \o sep \o Join(Tail(parts), sep)

\* _row_cache_key(year, geo_kind, groups, state_fips, county_fips)
RowCacheKey(year, geo_kind, groups, state_fips, county_fips) ==
    LET gtag == Join(groups, "-") IN
    IF geo_kind = "state"
    THEN "row:" \o ToString(year) \o ":state:" \o state_fips \o ":" \o gtag
    ELSE "row:" \o ToString(year) \o ":county:" \o state_fips \o ":"
         \o county_fips \o ":" \o gtag

GroupVarsKey(year, group) == "groupvars:" \o ToString(year) \o ":" \o group

\* `if cached is not None`
CacheHitTruthy(cached) == cached.some /\ cached.val # <<>>

CacheHit(cached) == cached.some

\* sorted([vn for vn in meta["variables"] if vn.startswith(f"{group}_")])
GroupVarsUnsorted(variables, group) ==
    SelectSeq(variables, LAMBDA vn : StartsWith(vn, group \o "_"))

GroupVars(variables, group) ==
    SortNames(SelectSeq(variables, LAMBDA vn : StartsWith(vn, group \o "_")))

\* out.update(dict(zip(headers, values)))
RECURSIVE UpdateZip(_, _, _)
UpdateZip(out, headers, values) ==
    IF headers = <<>> \/ values = <<>> THEN out
    ELSE UpdateZip(DictSet(out, Head(headers), Head(values)),
                   Tail(headers), Tail(values))

\* {k: row[k] for k in sorted(row.keys())}
Unordered(row) == row

OrderedVariablesOnly(row) ==
    LET ks == SortNames(SelectSeq([k \in 1..Len(row) |-> row[k][1]], IsTracked))
    IN  [k \in 1..Len(ks) |-> <<ks[k], DictGet(row, ks[k])>>]

Ordered(row) ==
    LET ks == SortNames([k \in 1..Len(row) |-> row[k][1]])
    IN  [k \in 1..Len(ks) |-> <<ks[k], DictGet(row, ks[k])>>]

Min(a, b) == IF a < b THEN a ELSE b

\* chunk = varnames[i:i+batch_size], with i counted from 0.
ChunkOverlapping(varnames, i, batch_size) ==
    SubSeq(varnames, i + 1, Min(i + batch_size + 1, Len(varnames)))

Chunk(varnames, i, batch_size) ==
    SubSeq(varnames, i + 1, Min(i + batch_size, Len(varnames)))

\* range(0, len(varnames), batch_size): the number of batches.
Batches(n) == (n + BATCH_SIZE - 1) \div BATCH_SIZE

\* What the Census server may answer: the variables of a group's metadata,
\* the geography columns it appends to a data row, and the cells of the row.
MetaReplies(group) ==
    IF group = "DP02"
    THEN {<<"DP02_0002E", "DP02_0001E">>, <<"DP02_0001E", "NAME">>}
    ELSE {<<"DP03_0001E">>}

GeoHeaders(geo_kind) ==
    IF geo_kind = "state" THEN <<"state">> ELSE <<"state", "county">>

GeoValues(geo_kind, state_fips, county_fips) ==
    IF geo_kind = "state" THEN <<state_fips>> ELSE <<state_fips, county_fips>>

CellInputs == {"10", None}

\* The order in which the server lists the columns of a data response.
HeaderOrders == {"requested", "reversed"}

GroupInputs == {<<>>, <<"DP02", "DP03">>, <<"DP03", "DP02">>}

GeoKindInputs == {"state", "county", "tract"}

FetchYears == {2023}

MaxFetchCalls == 2

LDInit ==
    [pc |-> "idle", year |-> 0, geo_kind |-> "", groups |-> <<>>,
     state_fips |-> "", county_fips |-> None, key |-> "", absent |-> FALSE,
     g |-> 1, all_vars |-> <<>>, i |-> 0, out |-> <<>>, net |-> 0,
     writes |-> 0, discovered |-> FALSE, batches |-> 0, log |-> <<>>,
     gv |-> <<>>]

\* The record of a get_group_variables call that returned: the metadata
\* document's variables when one was requested, the list returned and the
\* number of network requests made.
GroupRecord(year, group, variables, result, net) ==
    [year |-> year, group |-> group, variables |-> variables,
     result |-> result, net |-> net]

\* The record of a finished fetch_or_cache call.
CallRecord(s, outcome, row, hit) ==
    [args |-> <<s.year, s.geo_kind, s.groups, s.state_fips, s.county_fips>>,
     absent |-> s.absent, outcome |-> outcome, row |-> row, hit |-> hit,
     net |-> s.net, writes |-> s.writes, discovered |-> s.discovered,
     nvars |-> Len(s.all_vars), vars |-> s.all_vars, batches |-> s.batches]

\* The call is over: its locals are gone, its record is kept.
Finished(s, record) ==
    [s EXCEPT !.pc = "idle", !.g = 1, !.all_vars = <<>>, !.i = 0, !.out = <<>>,
              !.net = 0, !.writes = 0, !.discovered = FALSE, !.batches = 0,
              !.log = Append(@, record)]

LdReturn(s, row, hit) == Finished(s, CallRecord(s, "returned", row, hit))

LdRaiseAsReturn(s) == Finished(s, CallRecord(s, "returned", s.out, FALSE))

LdRaise(s) == Finished(s, CallRecord(s, "raised", <<>>, FALSE))

\* Where a call that missed the cache stands: in the loop of
\* discover_all_vars, in the loop of fetch_vars, or past both.
Phase(s) ==
    IF s.g <= Len(s.groups) THEN "discover"
    ELSE IF s.i < Len(s.all_vars) THEN "fetch"
    ELSE "save"

\* fetch_or_cache is entered: the key, the cache lookup, and on a hit the
\* return of the cached row; on a miss discover_all_vars is called.
FetchCall(geo_kinds, group_lists, limit) ==
    /\ ld.pc = "idle"
    /\ Len(ld.log) < limit
    /\ \E year \in FetchYears, geo_kind \in geo_kinds, groups \in group_lists :
         LET state_fips == "06"
             county_fips == IF geo_kind = "state" THEN None ELSE "059"
             key == RowCacheKey(year, geo_kind, groups, state_fips, county_fips)
             cached == KvLoadJson(kv.file, key)
             s == [ld EXCEPT !.year = year, !.geo_kind = geo_kind,
                             !.groups = groups, !.state_fips = state_fips,
                             !.county_fips = county_fips, !.key = key,
                             !.absent = ~KeyPresent(kv.file.rows, key),
                             !.g = 1, !.all_vars = <<>>, !.i = 0, !.out = <<>>,
                             !.net = 0, !.writes = 0, !.discovered = FALSE,
                             !.batches = 0]
             miss == [s EXCEPT !.discovered = TRUE]
         IN  /\ ld' = IF CacheHit(cached) THEN LdReturn(s, cached.val, TRUE)
                      ELSE [miss EXCEPT !.pc = Phase(miss)]
             /\ kv' = [kv EXCEPT !.file = EnsureKv(@)]
    /\ UNCHANGED <<rj, db, wr, dq, ls, fv, cc, pf, tm>>

LD_Call == FetchCall(GeoKindInputs, GroupInputs, MaxFetchCalls)

\* One turn of the loop of discover_all_vars: get_group_variables(year, g).
LD_Discover ==
    /\ ld.pc = "discover"
    /\ LET group == ld.groups[ld.g]
           cache_key == GroupVarsKey(ld.year, group)
           cached == KvLoadJson(kv.file, cache_key)
       IN  IF CacheHit(cached)
           THEN LET s == [ld EXCEPT
                            !.all_vars = @ \o cached.val, !.g = @ + 1,
                            !.gv = Append(@, GroupRecord(ld.year, group, <<>>,
                                                         cached.val, 0))]
                IN  /\ ld' = [s EXCEPT !.pc = Phase(s)]
                    /\ UNCHANGED kv
           ELSE \E fails \in BOOLEAN, saveFails \in BOOLEAN,
                   variables \in MetaReplies(group) :
                  LET vars_all == GroupVars(variables, group)
                      asked == [ld EXCEPT !.net = @ + 1]
                      s == [asked EXCEPT !.writes = @ + 1,
                                         !.all_vars = @ \o vars_all,
                                         !.g = @ + 1,
                                         !.gv = Append(@,
                                            GroupRecord(ld.year, group,
                                                        variables, vars_all, 1))]
                  IN  IF fails THEN ld' = LdRaise(asked) /\ UNCHANGED kv
                      ELSE IF saveFails
                      THEN ld' = LdRaise(asked) /\ UNCHANGED kv
                      ELSE /\ ld' = [s EXCEPT !.pc = Phase(s)]
                           /\ kv' = [kv EXCEPT !.file =
                                       KvSet(@, cache_key, DumpsList(vars_all))]
    /\ UNCHANGED <<rj, db, wr, dq, ls, fv, cc, pf, tm>>

\* One turn of the loop of fetch_vars: one batch request and out.update.
\* fetch_or_cache calls fetch_vars with "state" for the kind 'state' and with
\* "county" for every other kind, so the check of fetch_vars never fails.
LD_Fetch ==
    /\ ld.pc = "fetch"
    /\ LET chunk == Chunk(ld.all_vars, ld.i, BATCH_SIZE)
           get_list == <<"NAME">> \o chunk
       IN  \E fails \in BOOLEAN, cells \in [1..Len(chunk) -> CellInputs],
                   order \in HeaderOrders :
                  LET asked == [ld EXCEPT !.net = @ + 1]
                      echoed == get_list \o GeoHeaders(ld.geo_kind)
                      answer == <<"California">> \o cells
                                \o GeoValues(ld.geo_kind, ld.state_fips,
                                             ld.county_fips)
                      headers == IF order = "reversed" THEN Reverse(echoed)
                                 ELSE echoed
                      values == IF order = "reversed" THEN Reverse(answer)
                                ELSE answer
                      s == [asked EXCEPT !.out = UpdateZip(@, headers, values),
                                         !.i = @ + BATCH_SIZE,
                                         !.batches = @ + 1]
                  IN  ld' = IF fails THEN LdRaise(asked)
                            ELSE [s EXCEPT !.pc = Phase(s)]
    /\ UNCHANGED <<rj, kv, db, wr, dq, ls, fv, cc, pf, tm>>

\* The row is ordered, saved under its key and returned with from_cache False.
LD_Save ==
    /\ ld.pc = "save"
    /\ LET ordered == Ordered(ld.out) IN
       \E saveFails \in BOOLEAN :
         IF saveFails THEN ld' = LdRaise(ld) /\ UNCHANGED kv
         ELSE /\ ld' = LdReturn([ld EXCEPT !.writes = @ + 1], ordered, FALSE)
              /\ kv' = [kv EXCEPT !.file = KvSet(@, ld.key, DumpsDict(ordered))]
    /\ UNCHANGED <<rj, db, wr, dq, ls, fv, cc, pf, tm>>

NextFetch == LD_Call \/ LD_Discover \/ LD_Fetch \/ LD_Save

(***************************************************************************)
(* fetch_vars with its batch_size parameter (acs_loader.py 162-181)         *)
(***************************************************************************)

\* The variable lists a call is given: the first n names of a catalogue.
VarPool == <<"DP02_0001E", "DP02_0002E", "DP03_0001E", "DP03_0002E", "DP03_0003E">>

MaxVars == Len(VarPool)

BatchSizes == {1, 2, 3, BATCH_SIZE}

MaxBatchCalls == 2

FVInit ==
    [pc |-> "idle", varnames |-> <<>>, batch_size |-> 1, geo_kind |-> "",
     i |-> 0, requests |-> <<>>, out |-> <<>>, calls |-> 0]

\* fetch_vars(year, varnames, geo_kind, ..., batch_size) is entered: out = {}.
FV_Call ==
    /\ fv.pc \in {"idle", "returned", "raised"}
    /\ fv.calls < MaxBatchCalls
    /\ \E n \in 0..MaxVars, batch_size \in BatchSizes,
          geo_kind \in {"state", "county"} :
         fv' = [FVInit EXCEPT !.pc = "loop", !.varnames = SubSeq(VarPool, 1, n),
                              !.batch_size = batch_size, !.geo_kind = geo_kind,
                              !.calls = fv.calls + 1]
    /\ UNCHANGED <<rj, kv, db, wr, ld, dq, ls, cc, pf, tm>>

\* One turn of `for i in range(0, len(varnames), batch_size)`: the request
\* for NAME and the chunk, and out.update(dict(zip(headers, values))).
FV_Batch ==
    /\ fv.pc = "loop"
    /\ fv.i < Len(fv.varnames)
    /\ LET chunk == Chunk(fv.varnames, fv.i, fv.batch_size)
           get_list == <<"NAME">> \o chunk
           asked == [fv EXCEPT !.requests = Append(@, get_list)]
       IN  \E fails \in BOOLEAN, cell \in CellInputs :
             LET headers == get_list \o GeoHeaders(fv.geo_kind)
                 values == <<"California">> \o [k \in 1..Len(chunk) |-> cell]
                           \o GeoValues(fv.geo_kind, "06", "059")
             IN  fv' = IF fails THEN [asked EXCEPT !.pc = "raised"]
                       ELSE [asked EXCEPT
                               !.out = UpdateZip(@, headers, values),
                               !.i = @ + fv.batch_size]
    /\ UNCHANGED <<rj, kv, db, wr, ld, dq, ls, cc, pf, tm>>

\* The range is exhausted: return out.
FV_Return ==
    /\ fv.pc = "loop"
    /\ fv.i >= Len(fv.varnames)
    /\ fv' = [fv EXCEPT !.pc = "returned"]
    /\ UNCHANGED <<rj, kv, db, wr, ld, dq, ls, cc, pf, tm>>

NextBatches == FV_Call \/ FV_Batch \/ FV_Return

(***************************************************************************)
(* Two fetch_or_cache calls with the same arguments running at once        *)
(* (acs_loader.py 50-62, 162-181, 259-280; duck_writer.py 147-169): each   *)
(* call's cache reads, requests and kv_set statements interleave with the  *)
(* other's.  The remote API answers every request.                         *)
(***************************************************************************)

Procs == {1, 2}

\* The arguments both calls are made with.
SharedYear == CHOOSE year \in FetchYears : TRUE

SharedGroup == "DP02"

SharedRowKey == RowCacheKey(SharedYear, "state", <<SharedGroup>>, "06", None)

ProcStart ==
    [pc |-> "start", then |-> "", key |-> "", value |-> <<>>, work |-> {},
     snap |-> {}, inTxn |-> FALSE, all_vars |-> <<>>, row |-> <<>>,
     built |-> FALSE, outcome |-> "none", hit |-> FALSE]

PFInit == [rows |-> {}, p |-> [q \in Procs |-> ProcStart]]

\* The cache file as process q's connection sees it.
FileP(q) ==
    [exists |-> TRUE, rows |-> pf.rows,
     work |-> IF pf.p[q].inTxn THEN pf.p[q].work ELSE pf.rows,
     inTxn |-> pf.p[q].inTxn]

\* COMMIT: the transaction's removals and additions reach the committed table.
CommitShared(rows, txn) == (rows \ (txn.snap \ txn.work)) \cup (txn.work \ txn.snap)

\* kv_set(key, value_json) is entered by process q; `then` is where the call
\* goes on when kv_set returns.
PfSet(q, rec, key, value, then) ==
    [pf EXCEPT !.p[q] = [rec EXCEPT !.pc = "begin", !.key = key,
                                    !.value = value, !.then = then]]

\* fetch_or_cache is entered: the lookup of the row key.
PF_Call(q) ==
    /\ pf.p[q].pc = "start"
    /\ LET cached == KvLoadJson(FileP(q), SharedRowKey) IN
       pf' = IF CacheHit(cached)
             THEN [pf EXCEPT !.p[q].pc = "done", !.p[q].outcome = "returned",
                             !.p[q].row = cached.val, !.p[q].hit = TRUE]
             ELSE [pf EXCEPT !.p[q].pc = "discover"]
    /\ UNCHANGED <<rj, kv, db, wr, ld, dq, ls, fv, cc, tm>>

\* get_group_variables: the cached list, or the metadata request followed by
\* the kv_set of the list.
PF_Discover(q) ==
    /\ pf.p[q].pc = "discover"
    /\ LET cache_key == GroupVarsKey(SharedYear, SharedGroup)
           cached == KvLoadJson(FileP(q), cache_key)
       IN  IF CacheHit(cached)
           THEN pf' = [pf EXCEPT !.p[q].all_vars = cached.val, !.p[q].pc = "fetch"]
           ELSE \E variables \in MetaReplies(SharedGroup) :
                  LET vars_all == GroupVars(variables, SharedGroup) IN
                  pf' = PfSet(q, [pf.p[q] EXCEPT !.all_vars = vars_all],
                              cache_key, DumpsList(vars_all), "fetch")
    /\ UNCHANGED <<rj, kv, db, wr, ld, dq, ls, fv, cc, tm>>

\* fetch_vars (one batch), the ordering of the row, and the call of kv_set.
PF_Fetch(q) ==
    /\ pf.p[q].pc = "fetch"
    /\ \E cell \in CellInputs :
         LET chunk == Chunk(pf.p[q].all_vars, 0, BATCH_SIZE)
             headers == <<"NAME">> \o chunk \o GeoHeaders("state")
             values == <<"California">> \o [k \in 1..Len(chunk) |-> cell]
                       \o GeoValues("state", "06", None)
             ordered == Ordered(UpdateZip(<<>>, headers, values))
         IN  pf' = PfSet(q, [pf.p[q] EXCEPT !.row = ordered, !.built = TRUE],
                         SharedRowKey, DumpsDict(ordered), "return")
    /\ UNCHANGED <<rj, kv, db, wr, ld, dq, ls, fv, cc, tm>>

\* A statement of kv_set failed: ROLLBACK, and the error leaves fetch_or_cache.
PfRaise(q) ==
    [pf EXCEPT !.p[q].pc = "done", !.p[q].outcome = "raised",
               !.p[q].work = {}, !.p[q].snap = {}, !.p[q].inTxn = FALSE]

\* The state after a statement of process q's kv_set left the file as f.
PfAfter(q, f, pc) ==
    [pf EXCEPT !.rows = f.rows, !.p[q].work = f.work, !.p[q].inTxn = f.inTxn,
               !.p[q].pc = pc]

PfConflict(q) ==
    TxnConflict(pf.rows, pf.p[q], {pf.p[o] : o \in Procs \ {q}}, pf.p[q].key)

PF_Begin(q) ==
    /\ pf.p[q].pc = "begin"
    /\ pf' = [PfAfter(q, Begin(FileP(q)), "delete") EXCEPT !.p[q].snap = pf.rows]
    /\ UNCHANGED <<rj, kv, db, wr, ld, dq, ls, fv, cc, tm>>

PF_Delete(q) ==
    /\ pf.p[q].pc = "delete"
    /\ LET f == FileP(q)
           target == {r \in f.work : r.key = pf.p[q].key}
       IN  pf' = IF target # {} /\ PfConflict(q) THEN PfRaise(q)
                 ELSE PfAfter(q, Executed(f, SqlDelete(f.work, pf.p[q].key)),
                              "insert")
    /\ UNCHANGED <<rj, kv, db, wr, ld, dq, ls, fv, cc, tm>>

PF_Insert(q) ==
    /\ pf.p[q].pc = "insert"
    /\ LET f == FileP(q) IN
       pf' = IF PfConflict(q) \/ KeyPresent(f.work, pf.p[q].key) THEN PfRaise(q)
             ELSE PfAfter(q, Executed(f, SqlInsert(f.work, pf.p[q].key,
                                                   pf.p[q].value)), "commit")
    /\ UNCHANGED <<rj, kv, db, wr, ld, dq, ls, fv, cc, tm>>

\* COMMIT; kv_set returns and the call goes on: to fetch_vars after the
\* group's list was saved, to its return after the row was saved.
PF_Commit(q) ==
    /\ pf.p[q].pc = "commit"
    /\ LET committed == CommitShared(pf.rows, pf.p[q])
           s == [pf EXCEPT !.rows = committed, !.p[q].work = {},
                           !.p[q].snap = {}, !.p[q].inTxn = FALSE]
       IN  pf' = IF pf.p[q].then = "return"
                 THEN [s EXCEPT !.p[q].pc = "done", !.p[q].outcome = "returned"]
                 ELSE [s EXCEPT !.p[q].pc = pf.p[q].then]
    /\ UNCHANGED <<rj, kv, db, wr, ld, dq, ls, fv, cc, tm>>

NextParallel ==
    \E q \in Procs :
        \/ PF_Call(q) \/ PF_Discover(q) \/ PF_Fetch(q)
        \/ PF_Begin(q) \/ PF_Delete(q) \/ PF_Insert(q) \/ PF_Commit(q)

(***************************************************************************)
(* Data requests: get_state_data, get_county_data                          *)
(* (offline_check_all_of_field.py 108-125, 159-182; the get_county_data of  *)
(* lines 128-148 is replaced by the later definition of the same name),    *)
(* the flow of the data and delta                                          *)
(* endpoints of api.py: fetch_or_cache, then write_row_and_get_query       *)
(***************************************************************************)

\* GROUPS, shortened to the groups the model's server knows.
GROUPS == <<"DP02", "DP03">>

MaxRequests == 2

\* The fetch_or_cache calls that returned so far.
ReturnedCalls == {k \in 1..Len(ld.log) : ld.log[k].outcome = "returned"}

\* row = dict(row); row["geo_level"] = ...; row["year"] = int(year);
\* row["state"] = str(state_fips).zfill(2); row["county"] = ...zfill(3)
WithIds(row, year, geo_kind, state_fips, county_fips) ==
    LET r1 == DictSet(row, "geo_level", geo_kind)
        r2 == DictSet(r1, "year", year)
        r3 == DictSet(r2, "state", Zfill(state_fips, 2))
    IN  IF geo_kind = "county" THEN DictSet(r3, "county", Zfill(county_fips, 3))
        ELSE r3

\* The row a data request hands to write_row_and_get_query and returns to its
\* caller: get_state_data fills the identifiers in, the get_county_data in
\* force passes the fetch_or_cache row on as it is.
RequestRow(row, year, geo_kind, state_fips, county_fips) ==
    IF geo_kind = "state"
    THEN WithIds(row, year, geo_kind, state_fips, county_fips)
    ELSE row

\* A request begins: fetch_or_cache(year_str, geo_kind, GROUPS, ...).
ReqFetch ==
    /\ wr[1].pc = "idle"
    /\ wr[1].calls = Cardinality(ReturnedCalls)
    /\ FetchCall({"state", "county"}, {GROUPS}, MaxRequests)

ReqDiscover == LD_Discover

ReqBatch == LD_Fetch

ReqSave == LD_Save

\* fetch_or_cache returned: the row is written whatever from_cache says.
ReqWrite ==
    /\ ld.pc = "idle"
    /\ Len(ld.log) > 0
    /\ ld.log[Len(ld.log)].outcome = "returned"
    /\ W_Call(1, RequestRow(ld.log[Len(ld.log)].row, ld.year, ld.geo_kind,
                            ld.state_fips, ld.county_fips),
              ld.year, ld.geo_kind, ld.state_fips, ld.county_fips,
              Cardinality(ReturnedCalls))

ReqCreate == W_Create(1)

ReqInfo == W_Info(1)

ReqAlter == W_Alter(1, {FALSE})

ReqInsert == W_Insert(1)

NextRequests ==
    \/ ReqFetch \/ ReqDiscover \/ ReqBatch \/ ReqSave
    \/ ReqWrite \/ ReqCreate \/ ReqInfo \/ ReqAlter \/ ReqInsert

(***************************************************************************)
(* Listings: _probe_year, list_acs_years_for_state,                        *)
(* list_acs_years_for_county (acs_loader.py 110-158)                       *)
(***************************************************************************)

\* json.dumps of a list of integers.
DumpsInts(l) == <<"[">> \o [k \in 1..Len(l) |-> <<"num", l[k]>>] \o <<"]">>

\* What _census may do for a probe: raise (after the fetcher's retries, on a
\* fatal status, on a body that is not JSON) or return the decoded array.
Raises == "raises"

ProbeReplies ==
    { Raises, <<>>, <<<<"NAME", "state">>>>,
      <<<<"NAME", "state">>, <<"California", "06">>>> }

\* The except clause of _probe_year swallows the exception.
ProbeCaught(reply) == reply = Raises

\* _probe_year: bool(data) and len(data) >= 2, False on any exception.
ProbeYearRaisedCounts(geo_kind, reply) ==
    IF geo_kind \notin {"state", "county"} THEN FALSE
    ELSE ProbeCaught(reply) \/ Len(reply) >= 2

ProbeYear(geo_kind, reply) ==
    IF geo_kind \notin {"state", "county"} THEN FALSE
    ELSE IF ProbeCaught(reply) THEN FALSE
    ELSE reply # <<>> /\ Len(reply) >= 2

YearsKey(geo_kind, state_fips, county_fips, s, e) ==
    IF geo_kind = "state"
    THEN "years:state:" \o state_fips \o ":" \o ToString(s) \o ":" \o ToString(e)
    ELSE "years:county:" \o state_fips \o ":" \o county_fips \o ":"
         \o ToString(s) \o ":" \o ToString(e)

\* (start_year, end_year) of the listing calls.
Windows == {<<2022, 2023>>, <<2023, 2023>>}

MaxListCalls == 2

LSInit ==
    [pc |-> "idle", geo_kind |-> "", state_fips |-> "", county_fips |-> None,
     s |-> 0, e |-> 0, y |-> 0, years |-> <<>>, probes |-> <<>>, log |-> <<>>,
     counties |-> <<>>]

\* The record of a finished listing call: its arguments, whether the cache
\* answered, the probes it made (year and reply, in order) and its result.
ListRecord(l, outcome, hit, result) ==
    [args |-> <<l.geo_kind, l.state_fips, l.county_fips, l.s, l.e>>,
     outcome |-> outcome, hit |-> hit, probes |-> l.probes, result |-> result]

ListFinished(l, record) ==
    [l EXCEPT !.pc = "idle", !.y = 0, !.years = <<>>, !.probes = <<>>,
              !.log = Append(@, record)]

\* list_acs_years_for_state / _for_county is entered: the key and the lookup.
YL_Call ==
    /\ ls.pc = "idle"
    /\ Len(ls.log) < MaxListCalls
    /\ \E geo_kind \in {"state", "county"}, w \in Windows :
         LET county_fips == IF geo_kind = "state" THEN None ELSE "059"
             l == [ls EXCEPT !.geo_kind = geo_kind, !.state_fips = "06",
                             !.county_fips = county_fips,
                             !.s = w[1], !.e = w[2], !.y = w[1],
                             !.years = <<>>, !.probes = <<>>]
             cached == KvLoadJson(kv.file,
                                  YearsKey(geo_kind, "06", county_fips, w[1], w[2]))
         IN  /\ ls' = IF CacheHit(cached)
                      THEN ListFinished(l, ListRecord(l, "returned", TRUE,
                                                      cached.val))
                      ELSE [l EXCEPT !.pc = "probing"]
             /\ kv' = [kv EXCEPT !.file = EnsureKv(@)]
    /\ UNCHANGED <<rj, db, wr, ld, dq, fv, cc, pf, tm>>

\* One turn of the comprehension: _probe_year(y, ...) for the next year.
YL_Probe ==
    /\ ls.pc = "probing"
    /\ ls.y <= ls.e
    /\ \E reply \in ProbeReplies :
         ls' = [ls EXCEPT
                  !.probes = Append(@, <<ls.y, reply>>),
                  !.years = IF ProbeYear(ls.geo_kind, reply)
                            THEN Append(@, ls.y) ELSE @,
                  !.y = @ + 1]
    /\ UNCHANGED <<rj, kv, db, wr, ld, dq, fv, cc, pf, tm>>

\* _kv_save_json(cache_key, years); return years
YL_Save ==
    /\ ls.pc = "probing"
    /\ ls.y > ls.e
    /\ \E saveFails \in BOOLEAN :
         IF saveFails
         THEN /\ ls' = ListFinished(ls, ListRecord(ls, "raised", FALSE, <<>>))
              /\ UNCHANGED kv
         ELSE /\ ls' = ListFinished(ls, ListRecord(ls, "returned", FALSE,
                                                   ls.years))
              /\ kv' = [kv EXCEPT !.file =
                          KvSet(@, YearsKey(ls.geo_kind, ls.state_fips,
                                            ls.county_fips, ls.s, ls.e),
                                DumpsInts(ls.years))]
    /\ UNCHANGED <<rj, db, wr, ld, dq, fv, cc, pf, tm>>

NextYears == YL_Call \/ YL_Probe \/ YL_Save

(***************************************************************************)
(* Listings: list_counties_for_state (acs_loader.py 73-104)                *)
(***************************************************************************)

CountiesKey(year, state_fips) == "counties:" \o year \o ":" \o state_fips

\* list.index(x): the first position of x; 0 stands for its ValueError.
HeaderIndexFixed(headers, x) ==
    IF \A i \in 1..Len(headers) : headers[i] # x THEN 0
    ELSE IF x = "NAME" THEN 1 ELSE Len(headers)

HeaderIndex(headers, x) ==
    IF \E i \in 1..Len(headers) : headers[i] = x
    THEN CHOOSE i \in 1..Len(headers) :
            headers[i] = x /\ \A j \in 1..(i - 1) : headers[j] # x
    ELSE 0

\* for row in data[1:]: result[row[county_idx]] = row[name_idx]
RECURSIVE CountyMap(_, _, _, _)
CountyMap(result, rows, county_idx, name_idx) ==
    IF rows = <<>> THEN result
    ELSE CountyMap(DictSet(result, rows[1][county_idx], rows[1][name_idx]),
                   Tail(rows), county_idx, name_idx)

\* Responses of the server to get=NAME&for=county:*&in=state:{state}: the
\* header row in either column order, then the counties of the state.
CountyHeaders ==
    {<<"NAME", "state", "county">>, <<"county", "NAME", "state">>}

CountyFacts == {<<"Alameda County", "001">>, <<"Orange County", "059">>}

DataRow(headers, fact, state_fips) ==
    [i \in 1..Len(headers) |->
        IF headers[i] = "NAME" THEN fact[1]
        ELSE IF headers[i] = "county" THEN fact[2]
        ELSE state_fips]

CountyReplies(state_fips) ==
    {<<>>}
    \cup {<<h>> : h \in CountyHeaders \cup {<<"NAME", "state">>}}
    \cup {<<h, DataRow(h, f, state_fips)>> :
             h \in CountyHeaders \cup {<<"NAME", "state">>}, f \in CountyFacts}
    \cup {<<h, DataRow(h, p[1], state_fips), DataRow(h, p[2], state_fips)>> :
             h \in CountyHeaders,
             p \in {q \in CountyFacts \X CountyFacts : q[1] # q[2]}}

\* if not data or len(data) < 2: return {}   (nothing is saved)
NoDataEmptyOnly(data) == data = <<>>

NoData(data) == data = <<>> \/ Len(data) < 2

CountyRecord(year, state_fips, outcome, hit, reply, result, net) ==
    [year |-> year, state_fips |-> state_fips, outcome |-> outcome, hit |-> hit,
     reply |-> reply, result |-> result, net |-> net]

\* One list_counties_for_state(year, state_fips) call.
CL_Call ==
    /\ ls.pc = "idle"
    /\ Len(ls.counties) < MaxListCalls
    /\ \E year \in {"2023"}, state_fips \in {"06", "48"} :
         LET cache_key == CountiesKey(year, state_fips)
             cached == KvLoadJson(kv.file, cache_key)
             done(r) == [ls EXCEPT !.counties = Append(@, r)]
         IN  IF CacheHit(cached)
             THEN /\ ls' = done(CountyRecord(year, state_fips, "returned", TRUE,
                                             <<>>, cached.val, 0))
                  /\ kv' = [kv EXCEPT !.file = EnsureKv(@)]
             ELSE \E fails \in BOOLEAN, saveFails \in BOOLEAN,
                     data \in CountyReplies(state_fips) :
                    LET raised == CountyRecord(year, state_fips, "raised", FALSE,
                                               data, <<>>, 1)
                        name_idx == HeaderIndex(data[1], "NAME")
                        county_idx == HeaderIndex(data[1], "county")
                        result == CountyMap(<<>>, Tail(data), county_idx, name_idx)
                    IN  IF fails
                        THEN /\ ls' = done([raised EXCEPT !.reply = <<>>])
                             /\ kv' = [kv EXCEPT !.file = EnsureKv(@)]
                        ELSE IF NoData(data)
                        THEN /\ ls' = done(CountyRecord(year, state_fips,
                                              "returned", FALSE, data, <<>>, 1))
                             /\ kv' = [kv EXCEPT !.file = EnsureKv(@)]
                        ELSE IF name_idx = 0 \/ county_idx = 0 \/ saveFails
                        THEN /\ ls' = done(raised)
                             /\ kv' = [kv EXCEPT !.file = EnsureKv(@)]
                        ELSE /\ ls' = done(CountyRecord(year, state_fips,
                                              "returned", FALSE, data, result, 1))
                             /\ kv' = [kv EXCEPT !.file =
                                         KvSet(@, cache_key, DumpsDict(result))]
    /\ UNCHANGED <<rj, db, wr, ld, dq, fv, cc, pf, tm>>

NextCounties == CL_Call

(***************************************************************************)
(* fetch_or_cache over _read_json (acs_loader.py 29-47, 50-71, 162-181,    *)
(* 259-280): every request of the loader is one _read_json call            *)
(***************************************************************************)

MaxTermCalls == 2

\* `asked` counts the _read_json calls entered so far.
TMInit == [asked |-> 0]

\* The requests whose outcome the loader has taken up, over all calls.
RECURSIVE NetOfLog(_)
NetOfLog(log) == IF log = <<>> THEN 0 ELSE log[1].net + NetOfLog(Tail(log))

TotalNet == ld.net + NetOfLog(ld.log)

\* get_group_variables finds the list of the group at hand in the cache.
GroupCached ==
    CacheHit(KvLoadJson(kv.file, GroupVarsKey(ld.year, ld.groups[ld.g])))

\* The _read_json call of the request at hand is over.
RequestOver == tm.asked = TotalNet + 1 /\ rj.pc \in {"returned", "raised"}

\* The loader ends the call with the exception of its request.
Propagates(s) == s.pc = "idle" /\ s.log[Len(s.log)].outcome = "raised"

\* fetch_or_cache is entered.
TM_Call ==
    /\ tm.asked = TotalNet
    /\ FetchCall({"state"}, {<<"DP02", "DP03">>, <<"DP03">>}, MaxTermCalls)

\* _census(base, params): the loader enters _read_json for its next request.
TM_Ask ==
    /\ \/ ld.pc = "discover" /\ ~GroupCached
       \/ ld.pc = "fetch"
    /\ tm.asked = TotalNet
    /\ rj' = [RJInit EXCEPT !.pc = "try", !.attempt = 1]
    /\ tm' = [tm EXCEPT !.asked = @ + 1]
    /\ UNCHANGED <<kv, db, wr, ld, dq, ls, fv, cc, pf>>

\* One attempt of the request at hand: a document, a status that ends the
\* call, a status or a connection failure that is retried, or another error.
TM_Attempt ==
    /\ tm.asked = TotalNet + 1
    /\ RJ_Attempt
    /\ rj'.last_err.code \in {0, 503}
    /\ rj'.result.err.code \in {0, 404}

\* The pause after a failed attempt is over.
TM_Sleep ==
    /\ tm.asked = TotalNet + 1
    /\ RJ_Sleep
    /\ rj'.sleeps[Len(rj'.sleeps)] = BackoffMs(rj.attempt)

\* An exception ends the call: the one _read_json raised for the request at
\* hand, one raised on the document it returned (or on saving the list of
\* the group), or one raised on saving the row.
TM_Raise ==
    /\ \/ /\ ld.pc = "discover" /\ ~GroupCached
          /\ RequestOver
          /\ ld' = LdRaise([ld EXCEPT !.net = @ + 1])
       \/ /\ ld.pc = "fetch"
          /\ RequestOver
          /\ ld' = LdRaise([ld EXCEPT !.net = @ + 1])
       \/ /\ ld.pc = "save"
          /\ tm.asked = TotalNet
          /\ ld' = LdRaise(ld)
    /\ UNCHANGED <<rj, kv, db, wr, dq, ls, fv, cc, pf, tm>>

\* get_group_variables goes on: with the cached list, or with the document
\* _read_json returned.
TM_Discover ==
    /\ ld.pc = "discover"
    /\ IF GroupCached THEN tm.asked = TotalNet
       ELSE RequestOver /\ rj.pc = "returned"
    /\ LD_Discover
    /\ ~Propagates(ld')

\* fetch_vars goes on with the document _read_json returned.
TM_Fetch ==
    /\ RequestOver /\ rj.pc = "returned"
    /\ LD_Fetch
    /\ ~Propagates(ld')
    /\ \A k \in 1..Len(ld'.out) : ld'.out[k][2] # None

\* The row is saved and returned.
TM_Save ==
    /\ tm.asked = TotalNet
    /\ LD_Save
    /\ ~Propagates(ld')

\* The steps of the program itself, once fetch_or_cache was entered.
TM_Step ==
    TM_Ask \/ TM_Attempt \/ TM_Sleep \/ TM_Raise \/ TM_Discover \/ TM_Fetch
    \/ TM_Save

NextTermination ==
    TM_Call \/ TM_Ask \/ TM_Attempt \/ TM_Sleep \/ TM_Raise \/ TM_Discover
    \/ TM_Fetch \/ TM_Save

(***************************************************************************)
(* Initial state and specifications                                        *)
(***************************************************************************)

Init ==
    /\ rj = RJInit
    /\ kv = KVInit
    /\ db = DBInit
    /\ wr = WRInit
    /\ ld = LDInit
    /\ dq = DQInit
    /\ ls = LSInit
    /\ fv = FVInit
    /\ cc = CCInit
    /\ pf = PFInit
    /\ tm = TMInit

SpecRetry == Init /\ [][NextRetry]_vars

SpecKV == Init /\ [][NextKV]_vars

SpecStore == Init /\ [][NextStore]_vars

SpecRace == Init /\ [][NextRace]_vars

SpecDelta == Init /\ [][NextDelta]_vars

SpecFetch == Init /\ [][NextFetch]_vars

SpecApiDelta == Init /\ [][NextApiDelta]_vars

SpecRequests == Init /\ [][NextRequests]_vars

SpecYears == Init /\ [][NextYears]_vars

SpecPairing == Init /\ [][NextPairing]_vars

SpecBatches == Init /\ [][NextBatches]_vars

SpecShared == Init /\ [][NextShared]_vars

SpecParallel == Init /\ [][NextParallel]_vars

\* Every attempt completes and every pause ends, and the program takes its
\* next step whenever it has one; nothing obliges a caller to call.
SpecTermination ==
    Init /\ [][NextTermination]_vars /\ WF_vars(TM_Step)

SpecCounties == Init /\ [][NextCounties]_vars

(***************************************************************************)
(* Claims about _read_json                                                 *)
(***************************************************************************)

RJDone == rj.pc \in {"returned", "raised"}

\* C2: when every attempt of a _read_json call fails with a retryable
\* condition, the call makes exactly RETRY_MAX (5) attempts, never a 6th, and
\* ends by raising the error of the last (5th) attempt, not a value and not an
\* earlier error.
C2_RetryBound ==
    /\ rj.attempts <= RETRY_MAX
    /\ (RJDone /\ rj.retryable = rj.attempts) =>
          /\ rj.attempts = RETRY_MAX
          /\ rj.pc = "raised"
          /\ rj.result.type = "raise"
          /\ rj.result.err = rj.last_err
          /\ rj.result.err.at = RETRY_MAX

\* A call ended after RETRY_MAX retryable failures, the first and the last of
\* them different errors.
C2_Witness ==
    /\ rj.pc = "raised"
    /\ rj.retryable = RETRY_MAX
    /\ rj.first_err.code = 503
    /\ rj.last_err.kind = "URLError"

\* C3: an HTTP error status outside {429, 500, 502, 503, 504} is raised at the
\* attempt that observed it, on the first attempt or after retryable failures:
\* it is never kept for a retry, no attempt follows it and no pause follows it.
C3_FatalImmediate ==
    /\ ~(rj.last_err.kind = "HTTPError"
          /\ rj.last_err.code \notin {429, 500, 502, 503, 504})
    /\ rj.retryable < rj.attempts => rj.pc \in {"returned", "raised"}
    /\ (rj.pc = "raised" /\ rj.result.err.kind = "HTTPError"
        /\ rj.result.err.code \notin {429, 500, 502, 503, 504}) =>
          /\ rj.result.err.at = rj.attempts
          /\ rj.attempts = rj.retryable + 1
          /\ Len(rj.sleeps) = rj.retryable

\* A 404 raised on the third attempt, after two retryable failures.
C3_Witness ==
    /\ rj.pc = "raised"
    /\ rj.result.err.kind = "HTTPError"
    /\ rj.result.err.code = 404
    /\ rj.result.err.at = 3
    /\ rj.retryable = 2

(***************************************************************************)
(* Claims about the key/value cache                                        *)
(***************************************************************************)

\* C4: the cache table never holds two entries for a key, and what kv_get
\* finds for a key is the value of the most recent kv_set of that key that
\* returned (nothing if there was none): a second set replaces the first,
\* and a set of another key leaves the entry alone.
C4_Upsert ==
    /\ \A r1, r2 \in kv.file.rows : r1.key = r2.key => r1 = r2
    /\ \A k \in KvKeys : SqlSelectValue(kv.file.rows, k) = kv.last[k]
    /\ (kv.pc = "idle" /\ kv.op = "set" /\ kv.outcome = "ok") =>
          {r \in kv.file.rows : r.key = kv.key}
             = {[key |-> kv.key, value |-> kv.value]}
    /\ (kv.pc = "idle" /\ kv.op = "get" /\ kv.outcome = "ok") =>
          kv.got = kv.last[kv.key]

\* set(k, v1), a set of another key, then set(k, v2) has just returned.
C4_Witness ==
    /\ kv.pc = "idle" /\ kv.op = "set" /\ kv.outcome = "ok"
    /\ kv.key = "row:2023:state:06:DP02"
    /\ kv.value = "[]"
    /\ [key |-> kv.key, value |-> "{\"NAME\": \"California\"}"] \in kv.before
    /\ KeyPresent(kv.file.rows, "groupvars:2023:DP02")

\* C5: a kv_set call that fails at any step raises and leaves the cache
\* content exactly as it was when the call began.
C5_FailedSetUnchanged ==
    (kv.pc = "idle" /\ kv.op = "set" /\ kv.outcome = "raised") =>
        /\ kv.file.rows = kv.before
        /\ ~kv.file.inTxn

\* A kv_set of a key that had an entry has failed at its INSERT, after the
\* DELETE of the old entry.
C5_Witness ==
    /\ kv.pc = "idle" /\ kv.op = "set" /\ kv.outcome = "raised"
    /\ kv.failedAt = "insert"
    /\ KeyPresent(kv.before, kv.key)

(***************************************************************************)
(* Claims about the schema-evolving store                                  *)
(***************************************************************************)

\* The keys of every row inserted into a table so far.
WrittenKeys(t) == UNION {DictKeys(t.src[i]) : i \in 1..Len(t.src)}

ColumnsCover ==
    \A st \in Stores :
        db[st].exists =>
            /\ SeqRange(CoreCols) \subseteq SeqRange(db[st].cols)
            /\ WrittenKeys(db[st]) \subseteq SeqRange(db[st].cols)

ColumnsKept ==
    \A st \in Stores : SeqRange(db[st].cols) \subseteq SeqRange(db'[st].cols)

\* C6: no step of any write_row_and_get_query call, failed or not, removes a
\* column of a wide table, and every existing table has the five core columns
\* and a column for every key of every row written to it so far.
C6_SchemaGrows == []ColumnsCover /\ [][ColumnsKept]_vars

\* A table that grew a column for its first row and then took a second row
\* without that column.
C6_Witness ==
    \E st \in Stores :
        /\ Len(db[st].rows) = 2
        /\ HasKey(db[st].src[1], "DP03_0001E")
        /\ ~HasKey(db[st].src[2], "DP03_0001E")
        /\ "DP03_0001E" \in SeqRange(db[st].cols)

RecordsAsWritten ==
    \A st \in Stores : \A i \in 1..Len(db[st].rows) :
        /\ DOMAIN db[st].rows[i] = SeqRange(db[st].cols)
        /\ \A c \in SeqRange(db[st].cols) :
              db[st].rows[i][c] = DictGet(db[st].src[i], c)

RecordsKept ==
    \A st \in Stores : \A i \in 1..Len(db[st].rows) :
        /\ i <= Len(db'[st].rows)
        /\ \A c \in DOMAIN db[st].rows[i] :
              db'[st].rows[i][c] = db[st].rows[i][c]
        /\ \A c \in SeqRange(db'[st].cols) \ SeqRange(db[st].cols) :
              db'[st].rows[i][c] = None

\* C7: a step that adds columns leaves every stored record's values in the
\* columns it had and gives it NULL in each new column; every stored record
\* holds, in each column, the value its row had for it and NULL where the
\* row had no such key.
C7_RowsPreserved == []RecordsAsWritten /\ [][RecordsKept]_vars

\* Row A with DP02 only, then row B with DP02 and DP03 in the same table: A
\* reads NULL in DP03 and keeps its DP02 value.
C7_Witness ==
    \E st \in Stores :
        /\ Len(db[st].rows) = 2
        /\ db[st].src[1] # <<>>
        /\ ~HasKey(db[st].src[1], "DP03_0001E")
        /\ "DP03_0001E" \in DOMAIN db[st].rows[1]
        /\ db[st].rows[1]["DP03_0001E"] = None
        /\ <<"1", "0">> = db[st].rows[1]["DP02_0001E"]
        /\ <<"5">> = db[st].rows[2]["DP03_0001E"]

\* C8: two writers that add the same missing column to one table both return
\* without error in every interleaving, both rows are inserted, and no
\* column appears twice.
C8_ColumnRace ==
    /\ \A w \in Writers : wr[w].outcome # "raised"
    /\ \A w \in Writers : wr[w].pc = "idle" => wr[w].inserted = wr[w].calls
    /\ Len(db[StateStore].rows) = wr[1].inserted + wr[2].inserted
    /\ \A i, j \in 1..Len(db[StateStore].cols) :
          db[StateStore].cols[i] = db[StateStore].cols[j] => i = j

\* Both writers read the column set before either added the column; the
\* slower one met "already exists" and both have returned.
C8_Witness ==
    /\ \A w \in Writers : wr[w].pc = "idle" /\ wr[w].outcome = "ok"
    /\ \E w \in Writers : wr[w].raced
    /\ Len(db[StateStore].rows) = 2
    /\ "DP02_0001E" \in SeqRange(db[StateStore].cols)

IdTuple(rec) == <<rec["geo_level"], rec["year"], rec["state"], rec["county"]>>

\* C9: the SELECT a successful write_row_and_get_query call returns finds the
\* record the call inserted, finds only records with that record's
\* (geo_level, year, state, county), and compares with the normalized values.
C9_ExactRow ==
    \A w \in Writers :
        (wr[w].pc = "idle" /\ wr[w].outcome = "ok") =>
            LET t == db[wr[w].store]
                hits == RunQuery(t, wr[w].query)
            IN  /\ wr[w].pos \in hits
                /\ \A i \in hits : IdTuple(t.rows[i]) = IdTuple(t.rows[wr[w].pos])
                /\ wr[w].query.where[1] = <<"geo_level", Lower(wr[w].geo_level)>>
                /\ wr[w].query.where[2] = <<"year", wr[w].year>>

\* What does hold of the returned SELECT: it finds the inserted record.
C9_FindsOwnRow ==
    \A w \in Writers :
        (wr[w].pc = "idle" /\ wr[w].outcome = "ok") =>
            wr[w].pos \in RunQuery(db[wr[w].store], wr[w].query)

(***************************************************************************)
(* Claims about the delta query                                            *)
(***************************************************************************)

\* The number each numeric text of the model spells.
NumberOf(txt) ==
    CASE txt = <<"1", "0">> -> 10
      [] txt = <<"1", "2">> -> 12
      [] txt = <<"5">> -> 5
      [] txt = <<"-", "6">> -> 0 - 6

SpellsNumber(txt) ==
    /\ txt # None
    /\ \E n \in {<<"1", "0">>, <<"1", "2">>, <<"5">>, <<"-", "6">>} : n = txt

\* What a snapshot's row said about a column: its text, or None if it had no
\* such key.
Written(store, i, c) == DictGet(db[store].src[i], c)

\* C10: in every result row of the delta query each tracked column's delta is
\* number(b) - number(a) when both snapshots' texts are numeric, and NULL when
\* either is absent or not numeric; the query does not fail whatever the
\* texts are, and one column's texts do not change another column's delta.
C10_DeltaValues ==
    dq.ran =>
        /\ dq.ok
        /\ \A r \in dq.rows :
              /\ DOMAIN r.delta
                    = {c \in SeqRange(db[dq.store].cols) : IsTracked(c)}
              /\ \A c \in DOMAIN r.delta :
                    LET ta == Written(dq.store, r.a, c)
                        tb == Written(dq.store, r.b, c)
                    IN  r.delta[c] =
                            IF SpellsNumber(ta) /\ SpellsNumber(tb)
                            THEN Num(NumberOf(tb) - NumberOf(ta))
                            ELSE NullNum

\* A = {DP02_0001E: "10"} at 2018 and B = {DP02_0001E: "12", DP03_0001E: "5"}
\* at 2023: the result row has DP02_0001E__delta = 2, DP03_0001E__delta NULL.
C10_Witness ==
    /\ dq.ran /\ dq.ok
    /\ \E r \in dq.rows :
          /\ r.year_a = 2018 /\ r.year_b = 2023
          /\ <<"1", "0">> = Written(dq.store, r.a, "DP02_0001E")
          /\ Written(dq.store, r.a, "DP03_0001E") = None
          /\ <<"1", "2">> = Written(dq.store, r.b, "DP02_0001E")
          /\ <<"5">> = Written(dq.store, r.b, "DP03_0001E")
          /\ r.delta["DP02_0001E"] = Num(2)
          /\ r.delta["DP03_0001E"] = NullNum

(***************************************************************************)
(* Claims about fetch_or_cache                                             *)
(***************************************************************************)

\* C1: a fetch_or_cache call that starts with no cache entry for its row key
\* and returns has performed variable discovery and every batched fetch and
\* returns (row, False); the next call, when it has the same (year, geo_kind,
\* groups, state, county), makes no network request and no cache write and
\* returns (row', True) with row' equal to row in keys, order and values.
C1_FetchIdempotent ==
    \A k \in 1..Len(ld.log) :
        (ld.log[k].outcome = "returned" /\ ld.log[k].absent) =>
            /\ ~ld.log[k].hit
            /\ ld.log[k].discovered
            /\ ld.log[k].batches = Batches(ld.log[k].nvars)
            /\ (k < Len(ld.log) /\ ld.log[k + 1].args = ld.log[k].args) =>
                   /\ ld.log[k + 1].outcome = "returned"
                   /\ ld.log[k + 1].hit
                   /\ ld.log[k + 1].net = 0
                   /\ ld.log[k + 1].writes = 0
                   /\ ld.log[k + 1].row = ld.log[k].row

C1_Witness ==
    /\ Len(ld.log) >= 2
    /\ ld.log[1].outcome = "returned" /\ ld.log[1].absent
    /\ ld.log[1].net >= 3
    /\ \E c \in 1..Len(ld.log[1].row) : ld.log[1].row[c][2] = None
    /\ ld.log[2].args = ld.log[1].args
    /\ ld.log[2].hit /\ ld.log[2].net = 0 /\ ld.log[2].writes = 0

(***************************************************************************)
(* Claims about the delta flow of api.py                                   *)
(***************************************************************************)

\* C11: the delta query of the delta flow reads the table, in the store, that
\* write_row_and_get_query wrote the two snapshots to, so once both vintages
\* of a geography are persisted the executed query succeeds and returns a
\* result row for it.
C11_DeltaReadsWrittenTable ==
    dq.ran =>
        /\ dq.store = StateStore
        /\ dq.query.table = TableOf(StateStore)
        /\ dq.ok
        /\ dq.rows # {}

(***************************************************************************)
(* Claims about the request flow                                           *)
(***************************************************************************)

\* C12: over sequential requests for the same (vintage, geography) a request
\* whose fetch_or_cache result is a cache hit inserts no row, so a wide table
\* holds at most one record per (geo_level, year, state, county).
C12_NoDuplicateRows ==
    \A st \in Stores : \A i, j \in 1..Len(db[st].rows) :
        IdTuple(db[st].rows[i]) = IdTuple(db[st].rows[j]) => i = j

\* Two argument tuples of fetch_or_cache that differ at most in the order of
\* their groups.
SameUpToGroupOrder(a, b) ==
    /\ a[1] = b[1] /\ a[2] = b[2] /\ a[4] = b[4] /\ a[5] = b[5]
    /\ Len(a[3]) = Len(b[3])
    /\ SeqRange(a[3]) = SeqRange(b[3])

\* C13: the row cache key depends on the groups only through their sorted
\* tag: after a fetch_or_cache call returned, a later call whose arguments
\* differ at most in the order of the groups list is a cache hit.
C13_GroupOrderSameKey ==
    \A j, k \in 1..Len(ld.log) :
        (/\ j < k
         /\ ld.log[j].outcome = "returned"
         /\ SameUpToGroupOrder(ld.log[j].args, ld.log[k].args)) =>
            /\ ld.log[k].outcome = "returned"
            /\ ld.log[k].hit

\* The fetch_or_cache calls that missed the cache and returned.
Misses == {k \in 1..Len(ld.log) : ld.log[k].outcome = "returned" /\ ~ld.log[k].hit}

GeoKeys == {"state", "county"}

\* C14 as stated: on a miss, against a server that echoes the requested
\* columns plus the geography columns, the returned row has a key for every
\* discovered variable of every requested group, has NAME, and has no
\* variable key that was not discovered.
C14_RowKeysAlways ==
    \A k \in Misses :
        LET keys == DictKeys(ld.log[k].row) IN
        /\ SeqRange(ld.log[k].vars) \subseteq keys
        /\ "NAME" \in keys
        /\ keys \ ({"NAME"} \cup GeoKeys) \subseteq SeqRange(ld.log[k].vars)

\* C14, amended: the same, with NAME (and the geography columns) present
\* exactly when at least one variable was discovered; when none was, no batch
\* is requested and the row is empty.
C14_RowKeysWhenFetched ==
    \A k \in Misses :
        LET keys == DictKeys(ld.log[k].row) IN
        /\ SeqRange(ld.log[k].vars) \subseteq keys
        /\ keys \ ({"NAME"} \cup GeoKeys) \subseteq SeqRange(ld.log[k].vars)
        /\ ld.log[k].vars # <<>> => "NAME" \in keys
        /\ ld.log[k].vars = <<>> => ld.log[k].row = <<>>

C14_Witness ==
    \E k \in Misses :
        /\ ld.log[k].args[3] = <<"DP03", "DP02">>
        /\ SeqRange(ld.log[k].vars) = {"DP02_0001E", "DP02_0002E", "DP03_0001E"}
        /\ DictKeys(ld.log[k].row)
              = {"DP02_0001E", "DP02_0002E", "DP03_0001E", "NAME", "state"}

\* The keys of a row, in the row's order, ascend.
KeysAscend(row) ==
    \A i, j \in 1..Len(row) : i < j => LexRank(row[i][1]) < LexRank(row[j][1])

\* C15: the row fetch_or_cache returns, on a miss and on a later hit read back
\* from the cache, lists its keys in ascending lexicographic order, in
\* whatever order the batches listed their headers.
C15_KeysSorted ==
    \A k \in 1..Len(ld.log) :
        ld.log[k].outcome = "returned" => KeysAscend(ld.log[k].row)

C15_Witness ==
    \E k \in 1..Len(ld.log) :
        /\ k > 1
        /\ ld.log[k].outcome = "returned" /\ ld.log[k].hit
        /\ ld.log[k - 1].outcome = "returned" /\ ~ld.log[k - 1].hit
        /\ Len(ld.log[k].row) = 6
        /\ ld.log[k].row[1][1] = "DP02_0001E"
        /\ ld.log[k].row[4][1] = "NAME"
        /\ ld.log[k].row[6][1] = "state"

(***************************************************************************)
(* Claims about get_group_variables                                        *)
(***************************************************************************)

\* The names of a list strictly ascend: sorted, no duplicates.
StrictlyAscending(names) ==
    \A i, j \in 1..Len(names) : i < j => LexRank(names[i]) < LexRank(names[j])

\* C16: get_group_variables(year, group) returns a list in ascending
\* lexicographic order without duplicates; on a miss it holds exactly the
\* variable codes of the metadata response that start with '{group}_'; the
\* list is stored under 'groupvars:{year}:{group}', and a repeated call
\* returns it without a network request.
C16_GroupVariables ==
    \A k \in 1..Len(ld.gv) :
        LET r == ld.gv[k]
            stored == KvGet(kv.file, GroupVarsKey(r.year, r.group))
        IN  /\ StrictlyAscending(r.result)
            /\ r.net = 1 =>
                  SeqRange(r.result)
                     = {vn \in SeqRange(r.variables) : StartsWith(vn, r.group \o "_")}
            /\ stored # None
            /\ stored = DumpsList(r.result)
            /\ \A j \in 1..(k - 1) :
                  (ld.gv[j].year = r.year /\ ld.gv[j].group = r.group) =>
                      r.net = 0 /\ r.result = ld.gv[j].result

C16_Witness ==
    \E j, k \in 1..Len(ld.gv) :
        /\ j < k
        /\ ld.gv[j].group = "DP02" /\ ld.gv[k].group = "DP02"
        /\ ld.gv[j].net = 1
        /\ ld.gv[j].variables = <<"DP02_0002E", "DP02_0001E">>
        /\ ld.gv[j].result = <<"DP02_0001E", "DP02_0002E">>
        /\ ld.gv[k].net = 0
        /\ ld.gv[k].result = <<"DP02_0001E", "DP02_0002E">>

(***************************************************************************)
(* Claims about the year listings                                          *)
(***************************************************************************)

\* The listing calls that missed the cache and ran their probes to the end.
ListMisses == {k \in 1..Len(ls.log) : ~ls.log[k].hit}

\* C17: on a cache miss the listing probes every year of [start, end] exactly
\* once, in order, and returns in ascending order exactly the years whose
\* probe returned at least one data row; a probe that raises counts as
\* unavailable and does not make the listing call raise.
C17_YearsProbed ==
    \A k \in ListMisses :
        LET r == ls.log[k]
            n == r.args[5] - r.args[4] + 1
            avail == {i \in 1..n : /\ r.probes[i][2] # Raises
                                   /\ Len(r.probes[i][2]) >= 2}
        IN  /\ Len(r.probes) = n
            /\ \A i \in 1..n : r.probes[i][1] = r.args[4] + i - 1
            /\ r.outcome = "returned" =>
                  /\ {r.result[i] : i \in 1..Len(r.result)}
                        = {r.probes[i][1] : i \in avail}
                  /\ \A i, j \in 1..Len(r.result) : i < j => r.result[i] < r.result[j]

C17_Witness ==
    \E k \in ListMisses :
        /\ ls.log[k].outcome = "returned"
        /\ ls.log[k].args[4] = 2022 /\ ls.log[k].args[5] = 2023
        /\ ls.log[k].probes[1][2] = Raises
        /\ Len(ls.log[k].probes[2][2]) = 2
        /\ ls.log[k].result = <<2023>>

\* C18: once a year list (an empty one included) is cached for a geography
\* and window, every later call with the same geography and window returns
\* that list without a probe, whatever the server would answer now; a call
\* with another window or geography does not reuse the entry.
C18_YearsCached ==
    \A k \in 1..Len(ls.log) :
        LET earlier == {j \in 1..(k - 1) : /\ ls.log[j].outcome = "returned"
                                           /\ ls.log[j].args = ls.log[k].args}
        IN  /\ \A j \in earlier :
                  /\ ls.log[k].outcome = "returned"
                  /\ ls.log[k].hit
                  /\ ls.log[k].probes = <<>>
                  /\ ls.log[k].result = ls.log[j].result
            /\ earlier = {} =>
                  /\ ~ls.log[k].hit
                  /\ Len(ls.log[k].probes) = ls.log[k].args[5] - ls.log[k].args[4] + 1

C18_Witness ==
    /\ Len(ls.log) >= 2
    /\ ls.log[1].outcome = "returned" /\ ls.log[1].result = <<>>
    /\ ls.log[1].probes[1][2] = Raises
    /\ ls.log[2].args = ls.log[1].args
    /\ ls.log[2].hit /\ ls.log[2].result = <<>> /\ ls.log[2].probes = <<>>

(***************************************************************************)
(* Claims about list_counties_for_state                                    *)
(***************************************************************************)

\* The value a data row holds under a column of the header.
Cell(headers, row, column) ==
    row[CHOOSE i \in 1..Len(headers) : headers[i] = column]

\* C19: list_counties_for_state returns an empty mapping, without an error,
\* when the response is empty or has fewer than 2 rows; otherwise (the header
\* naming 'NAME' and 'county') it returns one entry per data row, from the
\* row's 'county' value to its 'NAME' value, wherever those columns stand.
C19_CountyListing ==
    \A k \in 1..Len(ls.counties) :
        LET r == ls.counties[k] IN
        (r.net = 1 /\ (r.outcome = "returned" \/ r.reply # <<>>)) =>
            IF Len(r.reply) < 2
            THEN r.outcome = "returned" /\ r.result = <<>>
            ELSE ({"NAME", "county"} \subseteq SeqRange(r.reply[1])
                  /\ r.outcome = "returned") =>
                    /\ Len(r.result) = Len(r.reply) - 1
                    /\ \A i \in 2..Len(r.reply) :
                          DictGet(r.result, Cell(r.reply[1], r.reply[i], "county"))
                             = Cell(r.reply[1], r.reply[i], "NAME")

C19_Witness ==
    \E j, k \in 1..Len(ls.counties) :
        /\ ls.counties[j].outcome = "returned" /\ ls.counties[j].net = 1
        /\ Len(ls.counties[j].reply) = 1 /\ ls.counties[j].result = <<>>
        /\ ls.counties[k].outcome = "returned" /\ ls.counties[k].net = 1
        /\ Len(ls.counties[k].reply) = 3
        /\ ls.counties[k].reply[1] = <<"county", "NAME", "state">>
        /\ DictGet(ls.counties[k].result, "059") = "Orange County"
        /\ DictGet(ls.counties[k].result, "001") = "Alameda County"

(***************************************************************************)
(* Claims about the inputs write_row_and_get_query rejects                 *)
(***************************************************************************)

\* The last call of writer w named a geo_level that is neither 'state' nor
\* 'county' once lower-cased.
UnsupportedGeo(w) ==
    wr[w].calls > 0 /\ wr[w].geo_level \notin {"state", "county"}

GeoRejected ==
    \A w \in Writers :
        UnsupportedGeo(w) =>
            /\ wr[w].pc = "idle"
            /\ wr[w].outcome = "raised"

StoresUntouched ==
    \A w \in Writers :
        (wr'[w].calls = wr[w].calls + 1
         /\ wr'[w].geo_level \notin {"state", "county"}) => db' = db

\* C20: a write_row_and_get_query call whose geo_level is neither 'state' nor
\* 'county', whatever its case, raises an error, and creates no table, adds
\* no column and inserts no row in any store.
C20_UnsupportedGeoRejected == []GeoRejected /\ [][StoresUntouched]_vars

C20_Witness ==
    /\ UnsupportedGeo(1)
    /\ wr[1].outcome = "raised"
    /\ wr[1].calls = 2
    /\ Len(db[StateStore].rows) = 1

(***************************************************************************)
(* Claims about the inputs fetch_or_cache rejects                          *)
(***************************************************************************)

\* C21: a fetch_or_cache call whose geography kind is neither 'state' nor
\* 'county' ends with an error, fetches data for no geography and writes no
\* row entry to the cache.
C21_UnsupportedKindRejected ==
    \A k \in 1..Len(ld.log) :
        ld.log[k].args[2] \notin {"state", "county"} =>
            /\ ld.log[k].outcome = "raised"
            /\ ld.log[k].batches = 0

\* The last call of writer w lacked a geography code its geo_level requires.
MissingCode(w) ==
    /\ wr[w].calls > 0
    /\ \/ wr[w].geo_level \in {"state", "county"} /\ wr[w].state_fips = None
       \/ wr[w].geo_level = "county" /\ wr[w].county_fips = None

\* C22: write_row_and_get_query ends with an error, and inserts no row, when
\* the call lacks the state code (for 'state' and 'county' rows) or the
\* county code (for 'county' rows).
C22_MissingCodeRejected ==
    \A w \in Writers :
        MissingCode(w) => wr[w].pc = "idle" /\ wr[w].outcome = "raised"

(***************************************************************************)
(* Claims about duplicate identifier tuples and store selection            *)
(***************************************************************************)

\* The number of records of a table that carry an identifier tuple.
TupleCount(t, id) ==
    Cardinality({i \in 1..Len(t.rows) : IdTuple(t.rows[i]) = id})

\* The identifier tuple of the row a writer's call is about to insert.
CallTuple(w) ==
    <<DictGet(wr[w].row, "geo_level"), DictGet(wr[w].row, "year"),
      DictGet(wr[w].row, "state"), DictGet(wr[w].row, "county")>>

NeverRejected ==
    \A w \in Writers :
        /\ wr[w].outcome # "raised"
        /\ wr[w].pc = "idle" => wr[w].inserted = wr[w].calls

InsertAddsOne ==
    \A w \in Writers :
        wr'[w].inserted = wr[w].inserted + 1 =>
            /\ TupleCount(db'[wr[w].store], CallTuple(w))
                  = TupleCount(db[wr[w].store], CallTuple(w)) + 1
            /\ Len(db'[wr[w].store].rows) = Len(db[wr[w].store].rows) + 1

\* C23: the store enforces no uniqueness on (geo_level, year, state, county):
\* every write_row_and_get_query call, sequential or concurrent with another
\* writer, succeeds and adds one record with its tuple however many records
\* already carry it, and no stored record is replaced.
C23_NoUniqueness ==
    []NeverRejected /\ [][InsertAddsOne /\ RecordsKept]_vars

C23_Witness ==
    /\ Len(db[StateStore].rows) = 2
    /\ IdTuple(db[StateStore].rows[1]) = IdTuple(db[StateStore].rows[2])
    /\ wr[1].inserted = 1 /\ wr[2].inserted = 1
    /\ \E w \in Writers : wr[w].raced

\* The store file a call must change: acs_states for a state-level call, the
\* file named by the two-digit state code for a county-level call.
TwoDigits(code) == IF Len(code) = 1 THEN "0" \o code ELSE code

ExpectedStore(call) ==
    IF call.geo_level = "state" THEN "acs_states"
    ELSE "acs_counties_" \o TwoDigits(call.state_fips)

OnlyOwnStoreChanges ==
    \A st \in Stores :
        db'[st] # db[st] =>
            \E w \in Writers :
                /\ wr[w].pc # "idle"
                /\ wr[w].geo_level \in {"state", "county"}
                /\ st = ExpectedStore(wr[w])

CountiesApart ==
    \A st \in Stores : \A i, j \in 1..Len(db[st].rows) :
        /\ db[st].rows[i]["state"] = db[st].rows[j]["state"] \/ st = "acs_states"
        /\ st # "acs_states" =>
              st = "acs_counties_" \o db[st].rows[i]["state"]

\* C24: a state-level write changes only the shared state store and a
\* county-level write for state s only the county store named by the two-digit
\* code of s; every other store is left as it was, so records of counties of
\* different states are never in one table.
C24_OwnStoreOnly == []CountiesApart /\ [][OnlyOwnStoreChanges]_vars

C24_Witness ==
    /\ Len(db["acs_states"].rows) = 1
    /\ Len(db["acs_counties_06"].rows) = 1
    /\ db["acs_counties_06"].rows[1]["state"] = "06"
    /\ wr[1].pc = "idle" /\ wr[1].geo_level = "county" /\ wr[1].state_fips = "6"

(***************************************************************************)
(* Claims about the check harness                                          *)
(***************************************************************************)

\* The identifier check of main (offline_check_all_of_field.py 262-264,
\* 329-332): row.get(...) compared with the requested values.
IdsOk(row, year, geo_kind, state_fips, county_fips) ==
    /\ DictGet(row, "geo_level") = geo_kind
    /\ DictGet(row, "state") = state_fips
    /\ HasKey(row, "year") /\ DictGet(row, "year") = year
    /\ geo_kind = "county" => DictGet(row, "county") = county_fips

\* The last data request is over: fetch_or_cache returned and
\* write_row_and_get_query returned after it.
RequestDone ==
    /\ ld.pc = "idle" /\ Len(ld.log) > 0
    /\ ld.log[Len(ld.log)].outcome = "returned"
    /\ wr[1].pc = "idle" /\ wr[1].outcome = "ok"
    /\ wr[1].calls = Cardinality(ReturnedCalls)

\* C25: the row a state or county data request returns to the harness
\* carries geo_level, year, state and, for a county, county equal to the
\* requested values, so the identifier check of the harness passes.
C25_HarnessIdsOk ==
    RequestDone =>
        IdsOk(RequestRow(ld.log[Len(ld.log)].row, ld.year, ld.geo_kind,
                         ld.state_fips, ld.county_fips),
              ld.year, ld.geo_kind, ld.state_fips, ld.county_fips)

(***************************************************************************)
(* Claims about the text of the delta query                                *)
(***************************************************************************)

\* The items of a select list: the text between its commas, "" where two
\* commas, or a comma and the end of the list, have nothing between them.
ItemText(tokens) == IF Len(tokens) = 0 THEN "" ELSE tokens[1]

RECURSIVE SplitItems(_)
SplitItems(tokens) ==
    IF \A k \in 1..Len(tokens) : tokens[k] # "," THEN <<ItemText(tokens)>>
    ELSE LET k == CHOOSE i \in 1..Len(tokens) :
                      tokens[i] = "," /\ \A j \in 1..(i - 1) : tokens[j] # ","
         IN  <<ItemText(SubSeq(tokens, 1, k - 1))>>
             \o SplitItems(SubSeq(tokens, k + 1, Len(tokens)))

\* The tracked columns of the queried table, ascending.
TrackedAscending ==
    SelectSeq(<<"DP02_0001E", "DP02_0002E", "DP03_0001E">>,
              LAMBDA c : c \in SeqRange(db[dq.store].cols))

\* C26: whatever the order of all_columns, and also when it has no tracked
\* column, the select list of build_delta_sql is the seven reference columns
\* followed by one '{column}__delta' expression per tracked column in
\* ascending order, with no empty item.
C26_SelectList ==
    dq.ran =>
        SplitItems(dq.query.select)
            = <<"geo_level", "state", "county", "year_a", "year_b", "NAME_a", "NAME_b">>
              \o [k \in 1..Len(TrackedAscending) |-> TrackedAscending[k] \o "__delta"]

\* NULL read as the empty string.
NullAsEmpty(x) == IF x = "None" THEN "" ELSE x

\* The two stored records a result row of the delta query was computed from.
SideA(r) == db[dq.store].rows[r.a]

SideB(r) == db[dq.store].rows[r.b]

\* C27: every result row of the delta query pairs a stored record of vintage
\* year_a with a stored record of vintage year_b that have the same geo_level,
\* state and county (NULL read as empty), and that geography is the requested
\* one: no record of another state, county, level or vintage is part of a
\* result row.
C27_PairsRequestedGeography ==
    (dq.ran /\ dq.ok) =>
        \A r \in dq.rows :
            /\ SideA(r)["year"] = dq.req[1]
            /\ SideB(r)["year"] = dq.req[2]
            /\ SideA(r)["geo_level"] = SideB(r)["geo_level"]
            /\ SideA(r)["state"] = SideB(r)["state"]
            /\ NullAsEmpty(SideA(r)["county"]) = NullAsEmpty(SideB(r)["county"])
            /\ SideA(r)["geo_level"] = dq.req[3]
            /\ SideA(r)["state"] = dq.req[4]
            /\ dq.req[3] = "county" => SideA(r)["county"] = dq.req[5]

\* A county delta with a result row, computed on a table that also holds a
\* record of another county.
C27_Witness ==
    /\ dq.ran /\ dq.ok /\ dq.rows # {}
    /\ dq.req[3] = "county"
    /\ \E i \in 1..Len(db[dq.store].rows) : db[dq.store].rows[i]["county"] = "001"

(***************************************************************************)
(* Claims about the pauses of _read_json                                   *)
(***************************************************************************)

\* C28: a backoff pause is taken only between two attempts: a call that made
\* k attempts took k - 1 pauses, none after the 5th failed attempt.
C28_PausesBetweenAttempts ==
    RJDone => Len(rj.sleeps) = rj.attempts - 1

\* The deterministic parts of the pauses, in milliseconds.
DoublingPauses == <<500, 1000, 2000, 4000, 8000>>

\* C29: the pause after the i-th failed attempt is 0.5 s * 2^(i-1) plus a
\* jitter in [0, 0.2 s): the deterministic parts are 0.5, 1, 2, 4 and 8
\* seconds, each the double of the one before.
C29_BackoffDoubles ==
    /\ Len(rj.sleeps) <= Len(DoublingPauses)
    /\ \A i \in 1..Len(rj.sleeps) :
          /\ rj.sleeps[i] >= DoublingPauses[i]
          /\ rj.sleeps[i] < DoublingPauses[i] + 200
    /\ \A i \in 2..RETRY_MAX : BackoffMs(i) = 2 * BackoffMs(i - 1)

\* All five pauses were taken, with the largest and the smallest jitter.
C29_Witness ==
    /\ Len(rj.sleeps) = 5
    /\ rj.sleeps[1] = 500
    /\ rj.sleeps[5] = 8199

NoAttemptAfterReturn ==
    rj.pc = "returned" => (rj'.pc = "try" /\ rj'.attempts = 0)

\* C30: when the k-th attempt is the first to succeed, after k - 1 retryable
\* failures, the call returns the document of that attempt, makes no further
\* attempt and raises none of the earlier errors.
C30_ReturnsAtFirstSuccess ==
    /\ [](rj.pc = "returned" =>
            /\ rj.result.type = "return"
            /\ rj.result.at = rj.attempts
            /\ rj.result.err = NoErr
            /\ rj.retryable = rj.attempts - 1
            /\ rj.attempts <= RETRY_MAX)
    /\ [][NoAttemptAfterReturn]_vars

\* A call that returned at its 5th attempt, after four retryable failures.
C30_Witness ==
    /\ rj.pc = "returned"
    /\ rj.attempts = 5
    /\ rj.retryable = 4
    /\ rj.last_err # NoErr

(***************************************************************************)
(* Claims about the batches of fetch_vars                                  *)
(***************************************************************************)

\* The variables the requests made so far asked for, in request order.
RECURSIVE Requested(_)
Requested(requests) ==
    IF Len(requests) = 0 THEN <<>>
    ELSE Tail(requests[1]) \o Requested(Tail(requests))

\* ceil(n / b)
CeilDiv(n, b) == IF n % b = 0 THEN n \div b ELSE n \div b + 1

\* C31: for a list of n variables and batch size b, fetch_vars issues
\* ceil(n / b) requests in list order, each for NAME and at most b variables,
\* the batches being contiguous slices that cover every position exactly
\* once; for n = 0 there is no request and the result is an empty row.
C31_Batches ==
    /\ \A k \in 1..Len(fv.requests) :
          /\ fv.requests[k][1] = "NAME"
          /\ Len(fv.requests[k]) - 1 \in 1..fv.batch_size
    /\ Len(Requested(fv.requests)) <= Len(fv.varnames)
    /\ Requested(fv.requests) = SubSeq(fv.varnames, 1, Len(Requested(fv.requests)))
    /\ fv.pc = "returned" =>
          /\ Len(fv.requests) = CeilDiv(Len(fv.varnames), fv.batch_size)
          /\ Requested(fv.requests) = fv.varnames
          /\ Len(fv.varnames) = 0 => (fv.requests = <<>> /\ fv.out = <<>>)

\* Five variables fetched in batches of two: three requests, the last one
\* short.
C31_Witness ==
    /\ fv.pc = "returned"
    /\ Len(fv.varnames) = 5 /\ fv.batch_size = 2
    /\ Len(fv.requests) = 3
    /\ Len(fv.requests[3]) = 2

(***************************************************************************)
(* Claims about failures during a fetch_or_cache miss                      *)
(***************************************************************************)

\* The row cache key of a finished call.
KeyOfCall(rec) ==
    RowCacheKey(rec.args[1], rec.args[2], rec.args[3], rec.args[4], rec.args[5])

\* A call that returned from a miss had every one of its requests answered:
\* one per group it had to look up remotely (each followed by a cache write),
\* one per batch, and the write of the row.
AllRequestsAnswered(rec) ==
    /\ rec.net = (rec.writes - 1) + rec.batches
    /\ rec.batches = Batches(rec.nvars)

\* Call m follows a raised call k with the same key, and no call between them
\* with that key returned.
MissAfterFailure(k, m) ==
    /\ k < m
    /\ ld.log[k].outcome = "raised"
    /\ KeyOfCall(ld.log[k]) = KeyOfCall(ld.log[m])
    /\ \A j \in (k + 1)..(m - 1) :
          KeyOfCall(ld.log[j]) = KeyOfCall(ld.log[m]) => ld.log[j].outcome = "raised"

FailureLeavesNoRow ==
    /\ \A m \in 1..Len(ld.log) :
          /\ (ld.log[m].outcome = "returned" /\ ~ld.log[m].hit) =>
                AllRequestsAnswered(ld.log[m])
          /\ \A k \in 1..Len(ld.log) :
                MissAfterFailure(k, m) =>
                    /\ ~ld.log[m].hit
                    /\ ld.log[m].absent
                    /\ ld.log[m].outcome = "returned" => AllRequestsAnswered(ld.log[m])
    /\ (ld.pc = "idle" /\ Len(ld.log) > 0
        /\ ld.log[Len(ld.log)].outcome = "raised") =>
          ~KeyPresent(kv.file.rows, ld.key)

GroupKeys == {GroupVarsKey(y, g) : y \in FetchYears, g \in {"DP02", "DP03"}}

\* A step that ends a call with an error writes nothing, a row entry appears
\* only in the step that returns the row, and group-variable entries stay.
FailureWritesNothing ==
    /\ (Len(ld'.log) = Len(ld.log) + 1
        /\ ld'.log[Len(ld'.log)].outcome = "raised") =>
          kv'.file.rows = kv.file.rows
    /\ \A r \in kv'.file.rows \ kv.file.rows :
          r.key \notin GroupKeys =>
              /\ Len(ld'.log) = Len(ld.log) + 1
              /\ ld'.log[Len(ld'.log)].outcome = "returned"
              /\ KeyOfCall(ld'.log[Len(ld'.log)]) = r.key
    /\ \A r \in kv.file.rows : r.key \in GroupKeys => r \in kv'.file.rows

\* C32: when discovery or a batch fetch raises during a miss, fetch_or_cache
\* raises and writes nothing under the row key, so the next call with the
\* same arguments misses again and fetches every batch; the group-variable
\* entries written before the failure stay in the cache.
C32_FailureNotCached == []FailureLeavesNoRow /\ [][FailureWritesNothing]_vars

\* A call failed at its batch request after caching a group's variables; the
\* next call with the same arguments missed, found the group cached and
\* returned.
C32_Witness ==
    /\ Len(ld.log) = 2
    /\ ld.log[1].outcome = "raised" /\ ld.log[1].writes = 2 /\ ld.log[1].net = 3
    /\ ld.log[2].args = ld.log[1].args
    /\ ld.log[2].outcome = "returned" /\ ~ld.log[2].hit
    /\ ld.log[2].net = 1 /\ ld.log[2].batches = 1

(***************************************************************************)
(* Claims about storage errors and the stored identifiers                  *)
(***************************************************************************)

\* Every stored record holds the value of each key of the row it came from.
StoredWhole ==
    \A st \in Stores : \A i \in 1..Len(db[st].rows) :
        \A k \in DictKeys(db[st].src[i]) :
            /\ k \in DOMAIN db[st].rows[i]
            /\ db[st].rows[i][k] = DictGet(db[st].src[i], k)

\* A call that ended on a storage error of ALTER TABLE inserted nothing.
FailedCallInsertedNothing ==
    \A w \in Writers :
        wr[w].error = "IO Error" =>
            /\ wr[w].pc = "idle" /\ wr[w].outcome = "raised"
            /\ wr[w].pos = 0 /\ wr[w].query = NoQuery

\* An ALTER TABLE that did not add its column, on a table that lacks the
\* column, ends the call with the error; the step that ends a call with an
\* error stores nothing.
AlterFailureRaises ==
    \A w \in Writers :
        /\ (/\ wr[w].pc = "alter"
            /\ wr'[w] # wr[w]
            /\ db' = db
            /\ wr[w].row[wr[w].i][1] \notin SeqRange(db[wr[w].store].cols)) =>
              /\ wr'[w].pc = "idle" /\ wr'[w].outcome = "raised"
              /\ wr'[w].inserted = wr[w].inserted
        /\ (wr'[w].outcome = "raised" /\ wr[w].outcome # "raised") =>
              \A st \in Stores : db'[st].rows = db[st].rows

\* C33: when adding a column fails with a storage error other than 'already
\* exists', the call raises the error and inserts no row; no stored record
\* ever holds only a part of its row.
C33_AlterFailureFatal ==
    [](StoredWhole /\ FailedCallInsertedNothing) /\ [][AlterFailureRaises]_vars

\* The second ALTER TABLE of a call failed after the first had added its
\* column: the call raised and the table holds no record.
C33_Witness ==
    /\ wr[1].pc = "idle" /\ wr[1].outcome = "raised" /\ wr[1].error = "IO Error"
    /\ wr[1].calls = 1
    /\ "DP02_0001E" \in SeqRange(db[wr[1].store].cols)
    /\ "DP03_0001E" \notin SeqRange(db[wr[1].store].cols)
    /\ Len(db[wr[1].store].rows) = 0

\* A geography code of a call in the form the store keeps: None stays None,
\* a code is padded with zeros to `width` digits.
Padded(code, width) ==
    IF code = "None" THEN "None"
    ELSE IF Len(code) >= width THEN code
    ELSE IF Len(code) = width - 1 THEN "0" \o code
    ELSE "00" \o code

\* The record a call that returned has inserted.
RecordOf(w) == db[wr[w].store].rows[wr[w].pos]

\* C34: the record stored by write_row_and_get_query has geo_level, year,
\* state and county equal to the call's arguments in normalized form
\* (lower-cased level, two-digit state, three-digit county, NULL county for a
\* state row), whatever the input row carried under those keys.
C34_IdentifiersFromArguments ==
    \A w \in Writers :
        (wr[w].pc = "idle" /\ wr[w].outcome = "ok") =>
            /\ RecordOf(w)["geo_level"] \in {"state", "county"}
            /\ RecordOf(w)["geo_level"] = wr[w].geo_level
            /\ RecordOf(w)["year"] = wr[w].year
            /\ RecordOf(w)["state"] = Padded(wr[w].state_fips, 2)
            /\ RecordOf(w)["county"] =
                  (IF wr[w].geo_level = "state" THEN "None"
                   ELSE Padded(wr[w].county_fips, 3))

(***************************************************************************)
(* Claims about concurrent use of the cache                                *)
(***************************************************************************)

\* The committed entries for the shared key.
SharedEntries == {r \in cc.rows : r.key = SharedKey}

\* C35: under any interleaving of kv_set and kv_get calls of two connections
\* on one key, the table never holds two entries for the key, a kv_get that
\* began after the key had a value never finds it absent, and when all calls
\* are over the key's value is that of a set that returned.
C35_SetAtomic ==
    /\ Cardinality(SharedEntries) <= 1
    /\ \A c \in Clients :
          (cc.cl[c].op = "get" /\ cc.cl[c].outcome = "ok" /\ cc.cl[c].had) =>
              cc.cl[c].got # "None"
    /\ (\A c \in Clients : cc.cl[c].pc = "idle") =>
          /\ \A r \in SharedEntries : r.value \in cc.ok
          /\ cc.ok # {} => SharedEntries # {}

\* Both connections' sets returned; afterwards a kv_get of connection 1 found
\* the value of connection 2 and a further set of connection 2 was rolled back.
C35_Witness ==
    /\ \A c \in Clients : cc.cl[c].pc = "idle" /\ cc.cl[c].calls = 2
    /\ cc.ok = {ValueOf(1), ValueOf(2)}
    /\ cc.cl[1].op = "get" /\ cc.cl[1].outcome = "ok" /\ cc.cl[1].got = ValueOf(2)
    /\ cc.cl[2].op = "set" /\ cc.cl[2].outcome = "raised"

\* The committed entries under the row key of the two calls.
SharedRowEntries == {r \in pf.rows : r.key = SharedRowKey}

\* A row assembled from a whole response: NAME, the state column and every
\* variable of the group's list.
WholeRow(row) ==
    /\ HasKey(row, "NAME") /\ HasKey(row, "state")
    /\ \E variables \in MetaReplies(SharedGroup) :
          DictKeys(row) = {"NAME", "state"} \cup
                          {v \in SeqRange(variables) : v \in {"DP02_0001E", "DP02_0002E"}}

\* C36: for two fetch_or_cache calls with the same arguments started on a
\* cache without the key, in every interleaving each call that returns
\* delivers a completely assembled row, and when both are over the cache
\* holds exactly one entry for the key, the row one of them assembled.
C36_ParallelFetch ==
    /\ \A q \in Procs : pf.p[q].outcome = "returned" => WholeRow(pf.p[q].row)
    /\ Cardinality(SharedRowEntries) <= 1
    /\ (\A q \in Procs : pf.p[q].pc = "done") =>
          /\ Cardinality(SharedRowEntries) = 1
          /\ \A r \in SharedRowEntries :
                \E q \in Procs : pf.p[q].built /\ Loads(r.value) = pf.p[q].row

\* Both calls missed and assembled different rows; the kv_set of one met the
\* other's and was rolled back, and the entry is the row of the call that
\* returned.
C36_Witness ==
    /\ \A q \in Procs : pf.p[q].pc = "done" /\ pf.p[q].built
    /\ pf.p[1].outcome = "returned" /\ pf.p[2].outcome = "raised"
    /\ pf.p[1].row # pf.p[2].row
    /\ pf.p[2].then = "return"

(***************************************************************************)
(* Claims about the number of delta rows                                   *)
(***************************************************************************)

\* The stored records of the requested geography with the given vintage.
GeoRows(year) ==
    {i \in 1..Len(db[dq.store].rows) :
        /\ db[dq.store].rows[i]["geo_level"] = dq.req[3]
        /\ db[dq.store].rows[i]["state"] = dq.req[4]
        /\ dq.req[3] = "county" => db[dq.store].rows[i]["county"] = dq.req[5]
        /\ db[dq.store].rows[i]["year"] = year}

\* C37: the delta query returns as many rows as there are stored records of
\* the requested geography with vintage a, times those with vintage b: one
\* when each snapshot was persisted once, none when one is missing.
C37_DeltaRowCount ==
    (dq.ran /\ dq.ok) =>
        Cardinality(dq.rows)
            = Cardinality(GeoRows(dq.req[1])) * Cardinality(GeoRows(dq.req[2]))

\* The count is the product whenever every stored state-level record has a
\* null county, that is, whenever no row arrived carrying a county of its own.
StateRowsCountyNull ==
    \A i \in 1..Len(db[dq.store].rows) :
        db[dq.store].rows[i]["geo_level"] = "state"
            => db[dq.store].rows[i]["county"] = None

ProductWhenCountyNull ==
    (dq.ran /\ dq.ok /\ StateRowsCountyNull) => C37_DeltaRowCount

(***************************************************************************)
(* Claims about the cache of the county listing                            *)
(***************************************************************************)

\* The earlier calls with the arguments of call k that got a response with
\* at least one data row and returned its mapping.
FilledBy(k) ==
    {j \in 1..(k - 1) :
        /\ ls.counties[j].year = ls.counties[k].year
        /\ ls.counties[j].state_fips = ls.counties[k].state_fips
        /\ ls.counties[j].outcome = "returned"
        /\ ~ls.counties[j].hit
        /\ Len(ls.counties[j].reply) >= 2}

\* The mapping is in the cache exactly for the arguments of some call that
\* got a response with at least one data row and returned.
CachedIffFilled ==
    \A year \in {"2023"}, state_fips \in {"06", "48"} :
        CacheHit(KvLoadJson(kv.file, CountiesKey(year, state_fips)))
            <=> \E j \in 1..Len(ls.counties) :
                   /\ ls.counties[j].year = year
                   /\ ls.counties[j].state_fips = state_fips
                   /\ ls.counties[j].outcome = "returned"
                   /\ ~ls.counties[j].hit
                   /\ Len(ls.counties[j].reply) >= 2

\* C38: list_counties_for_state saves the mapping only when the response has
\* a data row.  After an empty result every later call with the same
\* arguments makes a new remote request; after a non-empty one later calls
\* return the cached mapping without a request.
C38_CachesNonEmptyOnly ==
    /\ CachedIffFilled
    /\ \A k \in 1..Len(ls.counties) :
          /\ ls.counties[k].hit <=> FilledBy(k) # {}
          /\ ls.counties[k].hit =>
                /\ ls.counties[k].net = 0
                /\ ls.counties[k].outcome = "returned"
                /\ \A j \in FilledBy(k) :
                      ls.counties[k].result = ls.counties[j].result
          /\ ~ls.counties[k].hit => ls.counties[k].net = 1
          /\ (~ls.counties[k].hit /\ ls.counties[k].outcome = "returned"
                /\ Len(ls.counties[k].reply) < 2)
                => ls.counties[k].result = <<>>

\* A header-only response returned the empty mapping, and the next call with
\* the same arguments asked the server again and got the counties.
C38_Witness ==
    /\ Len(ls.counties) = 2
    /\ ls.counties[1].state_fips = ls.counties[2].state_fips
    /\ ls.counties[1].outcome = "returned"
    /\ Len(ls.counties[1].reply) = 1
    /\ ls.counties[1].result = <<>>
    /\ ~ls.counties[2].hit /\ ls.counties[2].net = 1
    /\ ls.counties[2].outcome = "returned"
    /\ DictGet(ls.counties[2].result, "059") = "Orange County"
    /\ CacheHit(KvLoadJson(kv.file, CountiesKey("2023", ls.counties[2].state_fips)))

(***************************************************************************)
(* Claims about termination                                                *)
(***************************************************************************)

\* No request is attempted more than RETRY_MAX times.
AttemptsBounded == rj.attempts <= RETRY_MAX

\* A call makes at most one request per group and one per batch of the
\* variables it discovered.
RequestsBounded ==
    /\ ld.net <= Len(ld.groups) + CeilDiv(Len(ld.all_vars), BATCH_SIZE)
    /\ \A k \in 1..Len(ld.log) :
          ld.log[k].net
              <= Len(ld.log[k].args[3]) + CeilDiv(ld.log[k].nvars, BATCH_SIZE)

\* A call that was entered is over at some later time.
EveryCallEnds == (ld.pc # "idle") ~> (ld.pc = "idle")

\* C39: when every network attempt completes, every fetch_or_cache call
\* returns or raises in the end, after at most RETRY_MAX attempts per request
\* and at most (number of groups + ceil(n / BATCH_SIZE)) requests, n being the
\* number of discovered variables.
C39_Terminates ==
    /\ []AttemptsBounded
    /\ []RequestsBounded
    /\ EveryCallEnds

\* A call over two groups returned after three requests, the last of which
\* was answered at its fifth attempt.
C39_Witness ==
    /\ ld.pc = "idle" /\ Len(ld.log) = 1
    /\ ld.log[1].outcome = "returned" /\ ~ld.log[1].hit
    /\ Len(ld.log[1].args[3]) = 2
    /\ ld.log[1].net = 3
    /\ rj.pc = "returned" /\ rj.attempts = RETRY_MAX
    /\ tm.asked = 3

============================================================================
